---- MODULE Spec2Model ----
(***************************************************************************)
(* A model of arcade-rs: the frame loop (phi::spawn), the input snapshot   *)
(* (Events::pump), the two views (MainMenuView, GameView) and the entity   *)
(* pipeline of GameView::update.                                           *)
(*                                                                         *)
(* Units.  The loop measures time in integer milliseconds and hands        *)
(* elapsed = dt / 1000.0 seconds to the views; speeds are in px/s.  The    *)
(* model keeps dt in ms and positions in 1/1000 px (mpx), so that          *)
(* "x += speed * elapsed" is "x += speed * dt" exactly.  f64 rounding is   *)
(* not modelled.                                                           *)
(***************************************************************************)
EXTENDS Integers, Sequences, FiniteSets, TLC

VARIABLES
    pc,                 \* position of the frame loop / of GameView::update
    clock,              \* the SDL timer, ms
    before,             \* spawn: `before`
    dt,                 \* spawn: `dt` of the current iteration (elapsed = dt/1000)
    win,                \* the renderer's output size, px
    keys,               \* Events: the level flag of every recognized key
    now,                \* Events.now: ImmediateEvents
    allocated_channels, \* Phi.allocated_channels
    view,               \* spawn: `current_view`
    action,             \* the ViewAction returned by the last update
    cues,               \* sounds started by the current update, per chunk
    drawn,              \* what the last render call drew
    userKeys,           \* environment: the keys the user operates in this run
    inputs,             \* environment: number of events delivered so far
    frame,              \* history: number of accepted frames
    calls,              \* history: poll/update/render/present calls of this frame
    polled,             \* history: the events drained by the last poll
    keysBefore,         \* history: the level flags when the last poll began
    pre,                \* history: the view on which the last update was invoked
    stages,             \* history: pipeline stages run by the current update
    collIn,             \* history: entities as the last collision pass found them
    spawns,             \* history: number of asteroids the RNG has spawned
    fresh               \* history: update was never invoked on current_view

vars == <<pc, clock, before, dt, win, keys, now, allocated_channels, view,
          action, cues, drawn, userKeys, inputs, frame, calls, polled, keysBefore,
          pre, stages, collIn, spawns, fresh>>

(***************************************************************************)
(* Bounds of the model.                                                    *)
(***************************************************************************)
MaxFrames == 2      \* accepted frames per run
MaxInputs == 3      \* platform events delivered per run
MaxSpawns == 1      \* asteroids spawned by the RNG per run
MaxGrow == 1        \* failed play attempts per run
MaxBullets == 3     \* bullets in flight in a drawn game state
MaxAsteroids == 2   \* asteroids in a drawn game state
SpriteW == 512      \* native width of a background sprite (asset data), px

(***************************************************************************)
(* Program constants.                                                      *)
(***************************************************************************)
MsPerSecond == 1000
interval == MsPerSecond \div 60
WindowW == 800
WindowH == 600
InitialChannels == 32

PLAYER_SPEED == 180
PLAYER_W == 43
PLAYER_H == 39
PlayerStartX == 64
CannonDX == 30
Cannon1DY == 6
Cannon2DY == 10
ASTEROID_SIDE == 96
EXPLOSIONS_TOTAL == 17
EXPLOSION_SIDE == 96
EXPLOSION_FPS == 16
BULLET_SPEED == 240
BULLET_W == 8
BULLET_H == 4

Px(n) == n * MsPerSecond    \* n px in mpx

(***************************************************************************)
(* phi/events.rs and the struct_events! invocation of phi/mod.rs.          *)
(***************************************************************************)
Keys == {"key_escape", "key_up", "key_down", "key_left", "key_right",
         "key_space", "key_return", "key_1", "key_2", "key_3"}

None == "None"
SomeTrue == "Some(true)"
SomeFalse == "Some(false)"

ImmediateEvents_new ==
    [key |-> [k \in Keys |-> None], quit |-> FALSE, resize |-> None]

Events_new == [k \in Keys |-> FALSE]

\* The platform events a poll may drain.  "key_a" stands for every event
\* the match ignores (a keycode outside the key table, a mouse event).
Ev(t, k) == [t |-> t, k |-> k]
EventAlphabet(ks) ==
    {Ev(t, k) : t \in {"KeyDown", "KeyUp"}, k \in ks}
        \cup {Ev("KeyDown", "key_a"), Ev("Quit", "-"), Ev("Resized", "-")}

SeqsUpTo(S, n) == UNION {[1..m -> S] : m \in 0..n}

\* pump_event without the `if !self.$k_alias` guard: every KeyDown, a
\* key-repeat included, sets the edge.
pump_event_unguarded(st, ev) ==
    CASE ev.t = "KeyDown" /\ ev.k \in Keys ->
            [st EXCEPT !.now.key[ev.k] = SomeTrue, !.keys[ev.k] = TRUE]
      [] ev.t = "KeyUp" /\ ev.k \in Keys ->
            [st EXCEPT !.now.key[ev.k] = SomeFalse, !.keys[ev.k] = FALSE]
      [] ev.t = "Quit" -> [st EXCEPT !.now.quit = TRUE]
      [] ev.t = "Resized" -> [st EXCEPT !.panicked = TRUE]
      [] OTHER -> st

\* pump_event with a KeyUp arm that records the edge and leaves the level
\* flag as it is.
pump_event_level_kept(st, ev) ==
    CASE ev.t = "KeyDown" /\ ev.k \in Keys ->
            [st EXCEPT !.now.key[ev.k] =
                           IF ~st.keys[ev.k] THEN SomeTrue ELSE @,
                       !.keys[ev.k] = TRUE]
      [] ev.t = "KeyUp" /\ ev.k \in Keys ->
            [st EXCEPT !.now.key[ev.k] = SomeFalse]
      [] ev.t = "Quit" ->
            [st EXCEPT !.now.quit = TRUE]
      [] ev.t = "Resized" ->
            [st EXCEPT !.panicked = TRUE]
      [] OTHER -> st

\* One arm of the `match event` of Events::pump, applied to
\* st = [keys, now, panicked].
pump_event(st, ev) ==
    CASE ev.t = "KeyDown" /\ ev.k \in Keys ->
            [st EXCEPT !.now.key[ev.k] =
                           IF ~st.keys[ev.k] THEN SomeTrue ELSE @,
                       !.keys[ev.k] = TRUE]
      [] ev.t = "KeyUp" /\ ev.k \in Keys ->
            [st EXCEPT !.now.key[ev.k] = SomeFalse,
                       !.keys[ev.k] = FALSE]
      [] ev.t = "Quit" ->
            [st EXCEPT !.now.quit = TRUE]
      [] ev.t = "Resized" ->
            \* panic!("Decide which of these two lines to use!") comes first:
            \* the assignment of now.resize after it is never executed.
            [st EXCEPT !.panicked = TRUE]
      [] OTHER -> st

\* The `for event in self.pump.poll_iter()` loop; a panic ends it.
RECURSIVE pump_loop(_, _)
pump_loop(st, evs) ==
    IF evs = <<>> \/ st.panicked THEN st
    ELSE pump_loop(pump_event(st, Head(evs)), Tail(evs))

\* Events::pump without `self.now = ImmediateEvents::new()`: the edges
\* of the previous poll stay until an event replaces them.
Events_pump_stale_edges(ks, evs) ==
    pump_loop([keys |-> ks, now |-> now, panicked |-> FALSE], evs)

Events_pump(ks, evs) ==
    pump_loop([keys |-> ks, now |-> ImmediateEvents_new, panicked |-> FALSE],
              evs)

(***************************************************************************)
(* phi/data.rs is not among the sources: Rectangle and MaybeAlive are      *)
(* modelled from the interface the specification gives them.  A rectangle  *)
(* is [x, y, w, h] in mpx.                                                 *)
(***************************************************************************)
Rectangle(x, y, w, h) == [x |-> x, y |-> y, w |-> w, h |-> h]

Rectangle_overlaps(r, o) ==
    /\ r.x < o.x + o.w
    /\ r.x + r.w > o.x
    /\ r.y < o.y + o.h
    /\ r.y + r.h > o.y

\* The centre, doubled: the centre of an odd-sized rectangle is a half unit.
Rectangle_center2(r) == <<2 * r.x + r.w, 2 * r.y + r.h>>

\* with_size(w, h).center_at(c), c given doubled.
Rectangle_center_at2(w, h, c2) ==
    Rectangle((c2[1] - w) \div 2, (c2[2] - h) \div 2, w, h)

\* Option<T> of a record type T: Nothing is Rust's None.
Nothing == [nothing |-> TRUE]

\* Some(rectangle moved into `parent`), or None when it cannot fit.
Rectangle_move_inside(r, parent) ==
    IF r.w > parent.w \/ r.h > parent.h THEN Nothing
    ELSE [r EXCEPT
            !.x = IF r.x < parent.x THEN parent.x
                  ELSE IF r.x + r.w >= parent.x + parent.w
                       THEN parent.x + parent.w - r.w
                       ELSE r.x,
            !.y = IF r.y < parent.y THEN parent.y
                  ELSE IF r.y + r.h >= parent.y + parent.h
                       THEN parent.y + parent.h - r.h
                       ELSE r.y]

(***************************************************************************)
(* views/shared.rs                                                         *)
(***************************************************************************)
Background(vel) == [pos |-> 0, vel |-> vel, w |-> Px(SpriteW)]

BgSet_new == [back |-> Background(20), middle |-> Background(40),
              front |-> Background(80)]

Background_update(bg, elapsed) ==
    LET pos == bg.pos + bg.vel * elapsed
    IN  [bg EXCEPT !.pos = IF pos > bg.w THEN pos - bg.w ELSE pos]

BgSet_update(bg, elapsed) ==
    [back |-> Background_update(bg.back, elapsed),
     middle |-> Background_update(bg.middle, elapsed),
     front |-> Background_update(bg.front, elapsed)]

(***************************************************************************)
(* views/bullets.rs.  A bullet is [kind, pos_x, origin_y, a, b,            *)
(* total_time]: for a RectBullet pos_x, origin_y are rect.x, rect.y; for a *)
(* SineBullet a, b are amplitude (px) and angular_vel (rad/s); for a       *)
(* DivergentBullet a is in px and b in ms.  total_time is in ms.           *)
(***************************************************************************)
CannonRect == [kind |-> "RectBullet", a |-> 0, b |-> 0]
CannonSine == [kind |-> "SineBullet", a |-> 10, b |-> 15]
CannonDivergent == [kind |-> "DivergentBullet", a |-> 100, b |-> 1200]

Bullet(kind, x, y, a, b) ==
    [kind |-> kind, pos_x |-> x, origin_y |-> y, a |-> a, b |-> b,
     total_time |-> 0]

\* spawn_bullets giving both Divergent bullets the same a.
spawn_bullets_unmirrored(cannon, cannons_x, cannon1_y, cannon2_y) ==
    CASE cannon.kind = "RectBullet" ->
            << Bullet("RectBullet", cannons_x, cannon1_y, 0, 0),
               Bullet("RectBullet", cannons_x, cannon2_y, 0, 0) >>
      [] cannon.kind = "SineBullet" ->
            << Bullet("SineBullet", cannons_x, cannon1_y, cannon.a, cannon.b),
               Bullet("SineBullet", cannons_x, cannon2_y, cannon.a, cannon.b) >>
      [] cannon.kind = "DivergentBullet" ->
            << Bullet("DivergentBullet", cannons_x, cannon1_y, cannon.a,
                      cannon.b),
               Bullet("DivergentBullet", cannons_x, cannon2_y, cannon.a,
                      cannon.b) >>

spawn_bullets(cannon, cannons_x, cannon1_y, cannon2_y) ==
    CASE cannon.kind = "RectBullet" ->
            << Bullet("RectBullet", cannons_x, cannon1_y, 0, 0),
               Bullet("RectBullet", cannons_x, cannon2_y, 0, 0) >>
      [] cannon.kind = "SineBullet" ->
            << Bullet("SineBullet", cannons_x, cannon1_y, cannon.a, cannon.b),
               Bullet("SineBullet", cannons_x, cannon2_y, cannon.a, cannon.b) >>
      [] cannon.kind = "DivergentBullet" ->
            << Bullet("DivergentBullet", cannons_x, cannon1_y, -cannon.a,
                      cannon.b),
               Bullet("DivergentBullet", cannons_x, cannon2_y, cannon.a,
                      cannon.b) >>

\* f64::sin of an angle in mrad, in 1/1000: Bhaskara's rational
\* approximation (absolute error below 2/1000), exact at 0.
PiMilli == 3142
SinHalf(x) ==
    LET p == x * (PiMilli - x)
    IN  (16 * p) \div ((5 * PiMilli * PiMilli - 4 * p) \div 1000)
SinMilli(theta) ==
    LET r == theta % (2 * PiMilli)
    IN  IF r <= PiMilli THEN SinHalf(r) ELSE -SinHalf(r - PiMilli)

\* a * ((t/b)^3 - (t/b)^2) in mpx, rounded down.
DivergentOffset(a, b, t) ==
    (a * ((t * t * (t - b)) \div ((b * b * b) \div 1000000))) \div 1000

Bullet_rect(bl) ==
    LET dy == CASE bl.kind = "RectBullet" -> 0
                [] bl.kind = "SineBullet" ->
                        bl.a * SinMilli(bl.b * bl.total_time)
                [] bl.kind = "DivergentBullet" ->
                        DivergentOffset(bl.a, bl.b, bl.total_time)
    IN  Rectangle(bl.pos_x, bl.origin_y + dy, Px(BULLET_W), Px(BULLET_H))

\* Bullet::update testing the right edge of the rectangle, x + w, against
\* the width of the screen.
Bullet_update_right_edge(bl, size, elapsed) ==
    LET moved == IF bl.kind = "RectBullet"
                 THEN [bl EXCEPT !.pos_x = @ + BULLET_SPEED * elapsed]
                 ELSE [bl EXCEPT !.total_time = @ + elapsed,
                                 !.pos_x = @ + BULLET_SPEED * elapsed]
        rect == Bullet_rect(moved)
    IN  IF rect.x + rect.w > Px(size[1])
           \/ (bl.kind = "DivergentBullet"
                 /\ (rect.y > Px(size[2]) \/ rect.y < 0))
        THEN Nothing
        ELSE moved

\* Bullet::update applying the Divergent bullet's vertical test to every
\* kind of bullet.
Bullet_update_vertical_for_all(bl, size, elapsed) ==
    LET moved == IF bl.kind = "RectBullet"
                 THEN [bl EXCEPT !.pos_x = @ + BULLET_SPEED * elapsed]
                 ELSE [bl EXCEPT !.total_time = @ + elapsed,
                                 !.pos_x = @ + BULLET_SPEED * elapsed]
        rect == Bullet_rect(moved)
    IN  IF rect.x > Px(size[1]) \/ rect.y > Px(size[2]) \/ rect.y < 0
        THEN Nothing
        ELSE moved

\* Bullet::update taking the elapsed time of the frame for the time since
\* the spawn.
Bullet_update_frame_time(bl, size, elapsed) ==
    LET moved == IF bl.kind = "RectBullet"
                 THEN [bl EXCEPT !.pos_x = @ + BULLET_SPEED * elapsed]
                 ELSE [bl EXCEPT !.total_time = elapsed,
                                 !.pos_x = @ + BULLET_SPEED * elapsed]
        rect == Bullet_rect(moved)
    IN  IF rect.x > Px(size[1])
           \/ (bl.kind = "DivergentBullet"
                 /\ (rect.y > Px(size[2]) \/ rect.y < 0))
        THEN Nothing
        ELSE moved

\* Bullet::update: the updated bullet, or None when it is destroyed.
Bullet_update(bl, size, elapsed) ==
    LET moved == IF bl.kind = "RectBullet"
                 THEN [bl EXCEPT !.pos_x = @ + BULLET_SPEED * elapsed]
                 ELSE [bl EXCEPT !.total_time = @ + elapsed,
                                 !.pos_x = @ + BULLET_SPEED * elapsed]
        rect == Bullet_rect(moved)
    IN  IF rect.x > Px(size[1])
           \/ (bl.kind = "DivergentBullet"
                 /\ (rect.y > Px(size[2]) \/ rect.y < 0))
        THEN Nothing
        ELSE moved

\* filter_map(f).collect() over the Vec of the values f returned.
Collect(s) == SelectSeq(s, LAMBDA x : x # Nothing)

(***************************************************************************)
(* views/game.rs: the entities.                                            *)
(***************************************************************************)
Player_new(size) ==
    [rect |-> Rectangle(Px(PlayerStartX), (Px(size[2]) - Px(PLAYER_H)) \div 2,
                        Px(PLAYER_W), Px(PLAYER_H)),
     current |-> "MidNorm",
     cannon |-> CannonRect]

\* Player::update with the whole window as the movable region.
Player_update_full_width(player, ev, held, size, elapsed) ==
    LET c1 == IF ev.key["key_1"] = SomeTrue THEN CannonRect ELSE player.cannon
        c2 == IF ev.key["key_2"] = SomeTrue THEN CannonSine ELSE c1
        c3 == IF ev.key["key_3"] = SomeTrue THEN CannonDivergent ELSE c2
        diagonal == (held["key_up"] # held["key_down"])
                        /\ (held["key_left"] # held["key_right"])
        moved == IF diagonal THEN (7071 * PLAYER_SPEED * elapsed) \div 10000
                 ELSE PLAYER_SPEED * elapsed
        dx == IF held["key_left"] = held["key_right"] THEN 0
              ELSE IF held["key_left"] THEN -moved ELSE moved
        dy == IF held["key_up"] = held["key_down"] THEN 0
              ELSE IF held["key_up"] THEN -moved ELSE moved
        movable_region == Rectangle(0, 0, Px(size[1]), Px(size[2]))
        rect == Rectangle_move_inside(
                    [player.rect EXCEPT !.x = @ + dx, !.y = @ + dy],
                    movable_region)
        row == IF dy < 0 THEN "Up" ELSE IF dy = 0 THEN "Mid" ELSE "Down"
        col == IF dx = 0 THEN "Norm" ELSE IF dx > 0 THEN "Fast" ELSE "Slow"
    IN  IF rect = Nothing THEN Nothing
        ELSE [rect |-> rect, current |-> row \o col, cannon |-> c3]

\* Player::update falling back to the first cannon when no weapon key is
\* pressed.
Player_update_forgetful(player, ev, held, size, elapsed) ==
    LET c2 == IF ev.key["key_2"] = SomeTrue THEN CannonSine ELSE CannonRect
        c3 == IF ev.key["key_3"] = SomeTrue THEN CannonDivergent ELSE c2
        diagonal == (held["key_up"] # held["key_down"])
                        /\ (held["key_left"] # held["key_right"])
        moved == IF diagonal THEN (7071 * PLAYER_SPEED * elapsed) \div 10000
                 ELSE PLAYER_SPEED * elapsed
        dx == IF held["key_left"] = held["key_right"] THEN 0
              ELSE IF held["key_left"] THEN -moved ELSE moved
        dy == IF held["key_up"] = held["key_down"] THEN 0
              ELSE IF held["key_up"] THEN -moved ELSE moved
        movable_region == Rectangle(0, 0, (Px(size[1]) * 70) \div 100,
                                    Px(size[2]))
        rect == Rectangle_move_inside(
                    [player.rect EXCEPT !.x = @ + dx, !.y = @ + dy],
                    movable_region)
        row == IF dy < 0 THEN "Up" ELSE IF dy = 0 THEN "Mid" ELSE "Down"
        col == IF dx = 0 THEN "Norm" ELSE IF dx > 0 THEN "Fast" ELSE "Slow"
    IN  IF rect = Nothing THEN Nothing
        ELSE [rect |-> rect, current |-> row \o col, cannon |-> c3]

\* Player::update: the updated player, or Nothing when move_inside fails
\* (the unwrap then aborts the program).
Player_update(player, ev, held, size, elapsed) ==
    LET c1 == IF ev.key["key_1"] = SomeTrue THEN CannonRect ELSE player.cannon
        c2 == IF ev.key["key_2"] = SomeTrue THEN CannonSine ELSE c1
        c3 == IF ev.key["key_3"] = SomeTrue THEN CannonDivergent ELSE c2
        diagonal == (held["key_up"] # held["key_down"])
                        /\ (held["key_left"] # held["key_right"])
        \* sqrt(0.5) taken as 0.7071
        moved == IF diagonal THEN (7071 * PLAYER_SPEED * elapsed) \div 10000
                 ELSE PLAYER_SPEED * elapsed
        dx == IF held["key_left"] = held["key_right"] THEN 0
              ELSE IF held["key_left"] THEN -moved ELSE moved
        dy == IF held["key_up"] = held["key_down"] THEN 0
              ELSE IF held["key_up"] THEN -moved ELSE moved
        movable_region == Rectangle(0, 0, (Px(size[1]) * 70) \div 100,
                                    Px(size[2]))
        rect == Rectangle_move_inside(
                    [player.rect EXCEPT !.x = @ + dx, !.y = @ + dy],
                    movable_region)
        row == IF dy < 0 THEN "Up" ELSE IF dy = 0 THEN "Mid" ELSE "Down"
        col == IF dx = 0 THEN "Norm" ELSE IF dx > 0 THEN "Fast" ELSE "Slow"
    IN  IF rect = Nothing THEN Nothing
        ELSE [rect |-> rect, current |-> row \o col, cannon |-> c3]

Player_spawn_bullets(player) ==
    spawn_bullets(player.cannon,
                  player.rect.x + Px(CannonDX),
                  player.rect.y + Px(Cannon1DY),
                  player.rect.y + Px(PLAYER_H) - Px(Cannon2DY))

\* Asteroid::update without the test of the left edge.
Asteroid_update_never_leaves(a, elapsed) ==
    [a EXCEPT !.rect.x = @ - elapsed * a.vel, !.time = @ + elapsed]

\* An asteroid is [rect, vel, fps, time]: fps and time are its
\* AnimatedSprite's playback rate and accumulated time (ms).
Asteroid_update(a, elapsed) ==
    LET x == a.rect.x - elapsed * a.vel
    IN  IF x <= -Px(ASTEROID_SIDE) THEN Nothing
        ELSE [a EXCEPT !.rect.x = x, !.time = @ + elapsed]

\* AsteroidFactory::random, its three random draws given.
AsteroidFactory_random(size, y, vel, fps) ==
    [rect |-> Rectangle(Px(size[1]), y, Px(ASTEROID_SIDE), Px(ASTEROID_SIDE)),
     vel |-> vel, fps |-> fps, time |-> 0]

\* phi/gfx.rs is not among the sources.  The frame an AnimatedSprite
\* shows: floor(accumulated_time * fps) mod total_frames, time in ms.
AnimatedSprite_frame(time, fps, total_frames) ==
    ((time * fps) \div MsPerSecond) % total_frames

\* Explosion::update testing the time the explosion had before this
\* update: the explosion goes one update late.
Explosion_update_late(e, elapsed) ==
    IF e.alive_since * EXPLOSION_FPS >= EXPLOSIONS_TOTAL * MsPerSecond
    THEN Nothing
    ELSE [e EXCEPT !.alive_since = @ + elapsed, !.time = @ + elapsed]

\* An explosion is [rect, alive_since, time], both times in ms.
\* EXPLOSION_DURATION = 1.0 / EXPLOSION_FPS * EXPLOSIONS_TOTAL seconds.
Explosion_update(e, elapsed) ==
    LET alive == e.alive_since + elapsed
    IN  IF alive * EXPLOSION_FPS >= EXPLOSIONS_TOTAL * MsPerSecond THEN Nothing
        ELSE [e EXCEPT !.alive_since = alive, !.time = @ + elapsed]

ExplosionFactory_at_center(center2) ==
    [rect |-> Rectangle_center_at2(Px(EXPLOSION_SIDE), Px(EXPLOSION_SIDE),
                                   center2),
     alive_since |-> 0, time |-> 0]

(***************************************************************************)
(* phi/mod.rs: Phi::play_sound.  Channel::all().play fails `fails` times   *)
(* before it succeeds; each failure doubles allocated_channels and         *)
(* retries.  The result is allocated_channels when the call returns.       *)
(***************************************************************************)
\* allocated_channels is an i32: `*= 2` as a build without overflow checks
\* computes it, wrapping at 32 bits.
I32Max == 2147483647
I32DoubleOverflows(n) == n > I32Max \div 2 \/ n < -(I32Max \div 2) - 1
I32Double(n) ==
    IF n > I32Max \div 2
    THEN (n - (I32Max \div 2 + 1)) * 2 - I32Max - 1
    ELSE IF n < -(I32Max \div 2) - 1
    THEN (n + (I32Max \div 2 + 1)) * 2 + I32Max + 1
    ELSE n * 2

RECURSIVE play_sound(_, _)
play_sound(allocated, fails) ==
    IF fails = 0 THEN allocated
    ELSE play_sound(I32Double(allocated), fails - 1)

RECURSIVE Pow2(_)
Pow2(n) == IF n = 0 THEN 1 ELSE 2 * Pow2(n - 1)

\* The failed attempts the model lets `n` play_sound calls meet.
Fails(allocated, n) ==
    {f \in 0..MaxGrow :
        /\ n = 0 => f = 0
        /\ play_sound(allocated, f) <= InitialChannels * Pow2(MaxGrow)}

(***************************************************************************)
(* views/game.rs: the collision pass of GameView::update (lines 420-468).  *)
(* Bullets carry a MaybeAlive flag; every asteroid is tested against every *)
(* bullet, dead or alive, and against the player.                          *)
(***************************************************************************)
\* BulletsHit stopping at the first bullet that overlaps.
BulletsHit_first(asteroid, bullets) ==
    LET h == {j \in 1..Len(bullets) :
                Rectangle_overlaps(asteroid.rect, Bullet_rect(bullets[j]))}
    IN  IF h = {} THEN {} ELSE {CHOOSE j \in h : \A m \in h : j <= m}

BulletsHit(asteroid, bullets) ==
    {j \in 1..Len(bullets) :
        Rectangle_overlaps(asteroid.rect, Bullet_rect(bullets[j]))}

\* collide_asteroid with the explosion and its sound inside the tests: one
\* per overlapping bullet and one for the player.
collide_asteroid_per_hit(acc, asteroid, bullets, player) ==
    LET hits == {j \in 1..Len(bullets) :
                    Rectangle_overlaps(asteroid.rect, Bullet_rect(bullets[j]))}
        crash == Rectangle_overlaps(asteroid.rect, player.rect)
        asteroid_alive == hits = {} /\ ~crash
        n == Cardinality(hits) + (IF crash THEN 1 ELSE 0)
    IN  [alive |-> [j \in 1..Len(bullets) |-> acc.alive[j] /\ j \notin hits],
         asteroids |-> IF asteroid_alive THEN Append(acc.asteroids, asteroid)
                       ELSE acc.asteroids,
         explosions |->
            acc.explosions \o
                [k \in 1..n |-> ExplosionFactory_at_center(
                                    Rectangle_center2(asteroid.rect))],
         sounds |-> acc.sounds + n,
         player_alive |-> acc.player_alive /\ ~crash]

\* collide_asteroid testing only the bullets no earlier asteroid has marked
\* dead.
collide_asteroid_live_only(acc, asteroid, bullets, player) ==
    LET hits == {j \in BulletsHit(asteroid, bullets) : acc.alive[j]}
        crash == Rectangle_overlaps(asteroid.rect, player.rect)
        asteroid_alive == hits = {} /\ ~crash
    IN  [alive |-> [j \in 1..Len(bullets) |-> acc.alive[j] /\ j \notin hits],
         asteroids |-> IF asteroid_alive THEN Append(acc.asteroids, asteroid)
                       ELSE acc.asteroids,
         explosions |->
            IF asteroid_alive THEN acc.explosions
            ELSE Append(acc.explosions,
                        ExplosionFactory_at_center(
                            Rectangle_center2(asteroid.rect))),
         sounds |-> IF asteroid_alive THEN acc.sounds ELSE acc.sounds + 1,
         player_alive |-> acc.player_alive /\ ~crash]

\* acc = [alive, asteroids, explosions, sounds, player_alive]
collide_asteroid(acc, asteroid, bullets, player) ==
    LET hits == BulletsHit(asteroid, bullets)
        crash == Rectangle_overlaps(asteroid.rect, player.rect)
        asteroid_alive == hits = {} /\ ~crash
    IN  [alive |-> [j \in 1..Len(bullets) |-> acc.alive[j] /\ j \notin hits],
         asteroids |-> IF asteroid_alive THEN Append(acc.asteroids, asteroid)
                       ELSE acc.asteroids,
         explosions |->
            IF asteroid_alive THEN acc.explosions
            ELSE Append(acc.explosions,
                        ExplosionFactory_at_center(
                            Rectangle_center2(asteroid.rect))),
         sounds |-> IF asteroid_alive THEN acc.sounds ELSE acc.sounds + 1,
         player_alive |-> acc.player_alive /\ ~crash]

RECURSIVE collide_loop(_, _, _, _)
collide_loop(acc, asteroids, bullets, player) ==
    IF asteroids = <<>> THEN acc
    ELSE collide_loop(collide_asteroid(acc, Head(asteroids), bullets, player),
                      Tail(asteroids), bullets, player)

\* collision_pass collecting the live bullets back to front.
collision_pass_reversed(game) ==
    LET r == collide_loop([alive |-> [j \in 1..Len(game.bullets) |-> TRUE],
                           asteroids |-> <<>>,
                           explosions |-> game.explosions,
                           sounds |-> 0,
                           player_alive |-> TRUE],
                          game.asteroids, game.bullets, game.player)
        live == SelectSeq([j \in 1..Len(game.bullets) |->
                               IF r.alive[j] THEN game.bullets[j] ELSE Nothing],
                          LAMBDA x : x # Nothing)
    IN  [bullets |-> [j \in 1..Len(live) |-> live[Len(live) + 1 - j]],
         asteroids |-> r.asteroids,
         explosions |-> r.explosions, sounds |-> r.sounds,
         player_alive |-> r.player_alive]

\* The pass over game = [player, bullets, asteroids, explosions, ...]:
\* the new collections, and the number of explosion sounds played.
collision_pass(game) ==
    LET r == collide_loop([alive |-> [j \in 1..Len(game.bullets) |-> TRUE],
                           asteroids |-> <<>>,
                           explosions |-> game.explosions,
                           sounds |-> 0,
                           player_alive |-> TRUE],
                          game.asteroids, game.bullets, game.player)
        live == SelectSeq([j \in 1..Len(game.bullets) |->
                               IF r.alive[j] THEN game.bullets[j] ELSE Nothing],
                          LAMBDA x : x # Nothing)
    IN  [bullets |-> live, asteroids |-> r.asteroids,
         explosions |-> r.explosions, sounds |-> r.sounds,
         player_alive |-> r.player_alive]

(***************************************************************************)
(* The views.                                                              *)
(***************************************************************************)
Actions == <<"New Game", "Quit">>

\* MainMenuView::with_backgrounds starting from fresh layers.
MainMenuView_with_fresh_backgrounds(bg) ==
    [kind |-> "MainMenu", selected |-> 0, bg |-> BgSet_new]

MainMenuView_with_backgrounds(bg) ==
    [kind |-> "MainMenu", selected |-> 0, bg |-> bg]

MainMenuView_new == MainMenuView_with_backgrounds(BgSet_new)

GameView_with_backgrounds(size, bg) ==
    [kind |-> "Gameplay", player |-> Player_new(size), bullets |-> <<>>,
     asteroids |-> <<>>, explosions |-> <<>>, bg |-> bg]

Render(v) == [tag |-> "Render", view |-> v]
Quit == [tag |-> "Quit", view |-> Nothing]
NoAction == [tag |-> "none", view |-> Nothing]

\* MainMenuView::update taking any escape edge, a release included, for
\* the cancel key.
MainMenuView_update_any_edge(self, ev, size, elapsed) ==
    IF ev.quit \/ ev.key["key_escape"] # None THEN Quit
    ELSE IF ev.key["key_space"] = SomeTrue \/ ev.key["key_return"] = SomeTrue
    THEN IF Actions[self.selected + 1] = "New Game"
         THEN Render(GameView_with_backgrounds(size, self.bg))
         ELSE Quit
    ELSE Render([self EXCEPT !.bg = BgSet_update(self.bg, elapsed)])

\* MainMenuView::update moving the selection without wrapping.
MainMenuView_update_no_wrap(self, ev, size, elapsed) ==
    IF ev.quit \/ ev.key["key_escape"] = SomeTrue THEN Quit
    ELSE IF ev.key["key_space"] = SomeTrue \/ ev.key["key_return"] = SomeTrue
    THEN IF Actions[self.selected + 1] = "New Game"
         THEN Render(GameView_with_backgrounds(size, self.bg))
         ELSE Quit
    ELSE LET up == IF ev.key["key_up"] = SomeTrue
                   THEN self.selected - 1 ELSE self.selected
             down == IF ev.key["key_down"] = SomeTrue THEN up + 1 ELSE up
         IN  Render([self EXCEPT !.selected = down,
                                 !.bg = BgSet_update(self.bg, elapsed)])

\* MainMenuView::update: the ViewAction it returns.
MainMenuView_update(self, ev, size, elapsed) ==
    IF ev.quit \/ ev.key["key_escape"] = SomeTrue THEN Quit
    ELSE IF ev.key["key_space"] = SomeTrue \/ ev.key["key_return"] = SomeTrue
    THEN IF Actions[self.selected + 1] = "New Game"
         THEN Render(GameView_with_backgrounds(size, self.bg))
         ELSE Quit
    ELSE LET up == IF ev.key["key_up"] = SomeTrue
                   THEN IF self.selected - 1 < 0 THEN Len(Actions) - 1
                        ELSE self.selected - 1
                   ELSE self.selected
             down == IF ev.key["key_down"] = SomeTrue
                     THEN IF up + 1 >= Len(Actions) THEN 0 ELSE up + 1
                     ELSE up
         IN  Render([self EXCEPT !.selected = down,
                                 !.bg = BgSet_update(self.bg, elapsed)])

\* What GameView::render and MainMenuView::render draw.
View_render(v) ==
    IF v.kind = "MainMenu"
    THEN [kind |-> "MainMenu", bg |-> v.bg, selected |-> v.selected]
    ELSE [kind |-> "Gameplay", bg |-> v.bg,
          player |-> [rect |-> v.player.rect, current |-> v.player.current],
          bullets |-> [i \in 1..Len(v.bullets) |-> Bullet_rect(v.bullets[i])],
          asteroids |-> v.asteroids,
          explosions |-> v.explosions]

(***************************************************************************)
(* The environment.                                                        *)
(***************************************************************************)
\* The time that passes from the acceptance of one frame (or from the
\* start of the loop) to the next read of the timer, ms.  A read that
\* follows timer.delay happens as the sleep ends.
Advance == {interval - 1, interval, 2 * interval + 1}

\* The keys a user operates in one run.
KeySets == {{"key_space", "key_escape"}, {"key_down", "key_return"},
            {"key_space", "key_right"}}

\* The draws <<y, vel, fps>> of AsteroidFactory::random: y in mpx within
\* [0, h - ASTEROID_SIDE), vel within [50, 150), fps within [10, 30).
RandomDraws(size) ==
    { <<0, 50, 10>>,
      <<(Px(size[2]) - Px(ASTEROID_SIDE)) \div 2, 149, 29>> }

NoCalls == [poll |-> 0, update |-> 0, render |-> 0, present |-> 0]
NoCues == [explosion |-> 0, bullet |-> 0]

(***************************************************************************)
(* phi/mod.rs: spawn.  The state when the loop is entered.                 *)
(***************************************************************************)
Init ==
    /\ pc = "tick"
    /\ clock = 0
    /\ before = 0
    /\ dt = 0
    /\ win = <<WindowW, WindowH>>
    /\ keys = Events_new
    /\ now = ImmediateEvents_new
    /\ allocated_channels = InitialChannels
    /\ view = MainMenuView_new
    /\ action = NoAction
    /\ cues = NoCues
    /\ drawn = Nothing
    /\ userKeys \in KeySets
    /\ inputs = 0
    /\ frame = 0
    /\ calls = NoCalls
    /\ polled = <<>>
    /\ keysBefore = Events_new
    /\ pre = Nothing
    /\ stages = <<>>
    /\ collIn = Nothing
    /\ spawns = 0
    /\ fresh = TRUE

\* spawn_tick accepting an iteration one millisecond early
\* (dt < interval - 1 in place of dt < interval).
spawn_tick_early ==
    /\ pc \in {"tick", "retry"}
    /\ frame < MaxFrames
    /\ \E adv \in IF pc = "tick" THEN Advance ELSE {0} :
        LET t == clock + adv
            d == t - before
        IN /\ dt' = d
           /\ IF d < interval - 1
              THEN /\ clock' = t + (interval - d)
                   /\ pc' = "retry"
                   /\ UNCHANGED <<before, frame, calls, cues, drawn,
                                  polled, keysBefore, pre, stages, collIn>>
              ELSE /\ clock' = t
                   /\ before' = t
                   /\ pc' = "pump"
                   /\ frame' = frame + 1
                   /\ calls' = NoCalls
                   /\ cues' = NoCues
                   /\ drawn' = Nothing
                   /\ polled' = <<>>
                   /\ keysBefore' = keys
                   /\ pre' = Nothing
                   /\ stages' = <<>>
                   /\ collIn' = Nothing
    /\ UNCHANGED <<win, keys, now, allocated_channels, view, action, userKeys,
                   inputs, spawns, fresh>>

\* Lines 164-176: read the timer; a short iteration sleeps the remainder
\* and retries, the others become a frame.
spawn_tick ==
    /\ pc \in {"tick", "retry"}
    /\ frame < MaxFrames
    /\ \E adv \in IF pc = "tick" THEN Advance ELSE {0} :
        LET t == clock + adv
            d == t - before
        IN /\ dt' = d
           /\ IF d < interval
              THEN /\ clock' = t + (interval - d)     \* timer.delay
                   /\ pc' = "retry"
                   /\ UNCHANGED <<before, frame, calls, cues, drawn,
                                  polled, keysBefore, pre, stages, collIn>>
              ELSE /\ clock' = t
                   /\ before' = t
                   /\ pc' = "pump"
                   /\ frame' = frame + 1
                   /\ calls' = NoCalls
                   /\ cues' = NoCues
                   /\ drawn' = Nothing
                   /\ polled' = <<>>
                   /\ keysBefore' = keys
                   /\ pre' = Nothing
                   /\ stages' = <<>>
                   /\ collIn' = Nothing
    /\ UNCHANGED <<win, keys, now, allocated_channels, view, action, userKeys,
                   inputs, spawns, fresh>>

\* The events a poll processed: all of them, or those up to the one on
\* which it panicked.
RECURSIVE Drained(_)
Drained(evs) ==
    IF evs = <<>> THEN <<>>
    ELSE IF Head(evs).t = "Resized" THEN <<Head(evs)>>
    ELSE <<Head(evs)>> \o Drained(Tail(evs))

\* Line 186: context.events.pump(&mut context.renderer).
spawn_pump ==
    /\ pc = "pump"
    /\ \E evs \in SeqsUpTo(EventAlphabet(userKeys), MaxInputs - inputs) :
        LET st == Events_pump(keys, evs)
        IN  /\ keys' = st.keys
            /\ now' = st.now
            /\ pc' = IF st.panicked THEN "panic" ELSE "update"
            /\ polled' = Drained(evs)
            /\ keysBefore' = keys
            /\ inputs' = inputs + Len(evs)
    /\ calls' = [calls EXCEPT !.poll = @ + 1]
    /\ UNCHANGED <<clock, before, dt, win, allocated_channels, view, action,
                   cues, drawn, userKeys, frame, pre, stages, collIn, spawns,
                   fresh>>

\* Line 188 for a MainMenuView, with the match on its result.
spawn_update_menu ==
    /\ pc = "update"
    /\ view.kind = "MainMenu"
    /\ action' = MainMenuView_update(view, now, win, dt)
    /\ pc' = IF action'.tag = "Quit" THEN "done" ELSE "render"
    /\ calls' = [calls EXCEPT !.update = @ + 1]
    /\ pre' = view
    /\ fresh' = (action'.tag = "Render" /\ action'.view.kind # "MainMenu")
    /\ polled' = <<>>
    /\ keysBefore' = keys
    /\ UNCHANGED <<clock, before, dt, win, keys, now, allocated_channels,
                   view, cues, drawn, userKeys, inputs, frame, stages, collIn, spawns>>

(***************************************************************************)
(* Line 188 for a GameView: GameView::update, one action per stage.        *)
(* `view` is the box being updated (self).                                 *)
(***************************************************************************)
\* GameView_update_enter testing the escape edge before the quit request.
GameView_update_enter_escape_first ==
    /\ pc = "update"
    /\ view.kind = "Gameplay"
    /\ IF now.key["key_escape"] = SomeTrue
       THEN /\ action' = Render(MainMenuView_with_backgrounds(view.bg))
            /\ pc' = "render"
            /\ fresh' = TRUE
       ELSE IF now.quit
       THEN action' = Quit /\ pc' = "done" /\ fresh' = fresh
       ELSE action' = NoAction /\ pc' = "g_player" /\ fresh' = FALSE
    /\ calls' = [calls EXCEPT !.update = @ + 1]
    /\ pre' = view
    /\ polled' = <<>>
    /\ keysBefore' = keys
    /\ UNCHANGED <<clock, before, dt, win, keys, now, allocated_channels,
                   view, cues, drawn, userKeys, inputs, frame, stages, collIn, spawns>>

\* Lines 377-389: the quit and escape checks.
GameView_update_enter ==
    /\ pc = "update"
    /\ view.kind = "Gameplay"
    /\ IF now.quit
       THEN action' = Quit /\ pc' = "done" /\ fresh' = fresh
       ELSE IF now.key["key_escape"] = SomeTrue
       THEN /\ action' = Render(MainMenuView_with_backgrounds(view.bg))
            /\ pc' = "render"
            /\ fresh' = TRUE
       ELSE action' = NoAction /\ pc' = "g_player" /\ fresh' = FALSE
    /\ calls' = [calls EXCEPT !.update = @ + 1]
    /\ pre' = view
    /\ polled' = <<>>
    /\ keysBefore' = keys
    /\ UNCHANGED <<clock, before, dt, win, keys, now, allocated_channels,
                   view, cues, drawn, userKeys, inputs, frame, stages, collIn, spawns>>

GameStageUnchanged ==
    UNCHANGED <<clock, before, dt, win, keys, now, drawn, userKeys, inputs, frame,
                calls, polled, keysBefore, pre, fresh>>

\* GameView_update_player followed at once by the collision pass, before
\* bullets, asteroids and explosions are updated.
GameView_update_player_then_collide ==
    /\ pc = "g_player"
    /\ LET p == Player_update(view.player, now, keys, win, dt)
       IN  IF p = Nothing
           THEN pc' = "panic" /\ UNCHANGED <<view, stages>>
           ELSE /\ view' = [view EXCEPT !.player = p]
                /\ stages' = Append(stages, "player")
                /\ pc' = "g_collide"
    /\ UNCHANGED <<allocated_channels, action, cues, collIn, spawns>>
    /\ GameStageUnchanged

\* Line 396: game.player.update(phi, elapsed).
GameView_update_player ==
    /\ pc = "g_player"
    /\ LET p == Player_update(view.player, now, keys, win, dt)
       IN  IF p = Nothing
           THEN pc' = "panic" /\ UNCHANGED <<view, stages>>
           ELSE /\ view' = [view EXCEPT !.player = p]
                /\ stages' = Append(stages, "player")
                /\ pc' = "g_bullets"
    /\ UNCHANGED <<allocated_channels, action, cues, collIn, spawns>>
    /\ GameStageUnchanged

\* Lines 399-403.
GameView_update_bullets ==
    /\ pc = "g_bullets"
    /\ view' = [view EXCEPT !.bullets =
                    Collect([i \in 1..Len(@) |-> Bullet_update(@[i], win, dt)])]
    /\ stages' = Append(stages, "bullets")
    /\ pc' = "g_asteroids"
    /\ UNCHANGED <<allocated_channels, action, cues, collIn, spawns>>
    /\ GameStageUnchanged

\* Lines 407-411.
GameView_update_asteroids ==
    /\ pc = "g_asteroids"
    /\ view' = [view EXCEPT !.asteroids =
                    Collect([i \in 1..Len(@) |-> Asteroid_update(@[i], dt)])]
    /\ stages' = Append(stages, "asteroids")
    /\ pc' = "g_explosions"
    /\ UNCHANGED <<allocated_channels, action, cues, collIn, spawns>>
    /\ GameStageUnchanged

\* Lines 414-418.
GameView_update_explosions ==
    /\ pc = "g_explosions"
    /\ view' = [view EXCEPT !.explosions =
                    Collect([i \in 1..Len(@) |-> Explosion_update(@[i], dt)])]
    /\ stages' = Append(stages, "explosions")
    /\ pc' = "g_collide"
    /\ UNCHANGED <<allocated_channels, action, cues, collIn, spawns>>
    /\ GameStageUnchanged

\* GameView_update_collide ending the game when the player is hit.
GameView_update_collide_game_over ==
    /\ pc = "g_collide"
    /\ LET r == collision_pass(view)
       IN  /\ view' = [view EXCEPT !.bullets = r.bullets,
                                   !.asteroids = r.asteroids,
                                   !.explosions = r.explosions]
           /\ cues' = [cues EXCEPT !.explosion = @ + r.sounds]
           /\ \E f \in Fails(allocated_channels, r.sounds) :
                allocated_channels' = play_sound(allocated_channels, f)
           /\ IF r.player_alive
              THEN pc' = "g_fire" /\ action' = action
              ELSE pc' = "done" /\ action' = Quit
    /\ collIn' = [player |-> view.player.rect, bullets |-> view.bullets,
                  asteroids |-> view.asteroids,
                  explosions |-> view.explosions]
    /\ stages' = Append(stages, "collision")
    /\ UNCHANGED spawns
    /\ GameStageUnchanged

\* Lines 420-475.
GameView_update_collide ==
    /\ pc = "g_collide"
    /\ LET r == collision_pass(view)
       IN  /\ view' = [view EXCEPT !.bullets = r.bullets,
                                   !.asteroids = r.asteroids,
                                   !.explosions = r.explosions]
           /\ cues' = [cues EXCEPT !.explosion = @ + r.sounds]
           /\ \E f \in Fails(allocated_channels, r.sounds) :
                allocated_channels' = play_sound(allocated_channels, f)
    /\ collIn' = [player |-> view.player.rect, bullets |-> view.bullets,
                  asteroids |-> view.asteroids,
                  explosions |-> view.explosions]
    /\ stages' = Append(stages, "collision")
    /\ pc' = "g_fire"
    /\ UNCHANGED <<action, spawns>>
    /\ GameStageUnchanged

\* GameView_update_fire firing on any edge of the fire key, a release
\* included.
GameView_update_fire_any_edge ==
    /\ pc = "g_fire"
    /\ IF now.key["key_space"] # None
       THEN /\ view' = [view EXCEPT !.bullets =
                            @ \o Player_spawn_bullets(view.player)]
            /\ cues' = [cues EXCEPT !.bullet = @ + 1]
            /\ \E f \in Fails(allocated_channels, 1) :
                 allocated_channels' = play_sound(allocated_channels, f)
       ELSE UNCHANGED <<view, cues, allocated_channels>>
    /\ stages' = Append(stages, "bullet spawn")
    /\ pc' = "g_spawn"
    /\ UNCHANGED <<action, collIn, spawns>>
    /\ GameStageUnchanged

\* GameView_update_fire firing in every frame in which the fire key is
\* down.
GameView_update_fire_while_held ==
    /\ pc = "g_fire"
    /\ IF keys["key_space"]
       THEN /\ view' = [view EXCEPT !.bullets =
                            @ \o Player_spawn_bullets(view.player)]
            /\ cues' = [cues EXCEPT !.bullet = @ + 1]
            /\ \E f \in Fails(allocated_channels, 1) :
                 allocated_channels' = play_sound(allocated_channels, f)
       ELSE UNCHANGED <<view, cues, allocated_channels>>
    /\ stages' = Append(stages, "bullet spawn")
    /\ pc' = "g_spawn"
    /\ UNCHANGED <<action, collIn, spawns>>
    /\ GameStageUnchanged

\* Lines 477-483.
GameView_update_fire ==
    /\ pc = "g_fire"
    /\ IF now.key["key_space"] = SomeTrue
       THEN /\ view' = [view EXCEPT !.bullets =
                            @ \o Player_spawn_bullets(view.player)]
            /\ cues' = [cues EXCEPT !.bullet = @ + 1]
            /\ \E f \in Fails(allocated_channels, 1) :
                 allocated_channels' = play_sound(allocated_channels, f)
       ELSE UNCHANGED <<view, cues, allocated_channels>>
    /\ stages' = Append(stages, "bullet spawn")
    /\ pc' = "g_spawn"
    /\ UNCHANGED <<action, collIn, spawns>>
    /\ GameStageUnchanged

\* Lines 485-489: rand::random::<usize>() % 100 == 0 is any outcome.
GameView_update_spawn ==
    /\ pc = "g_spawn"
    /\ \/ UNCHANGED <<view, spawns>>
       \/ /\ spawns < MaxSpawns
          /\ spawns' = spawns + 1
          /\ \E r \in RandomDraws(win) :
                view' = [view EXCEPT !.asteroids =
                            Append(@, AsteroidFactory_random(win, r[1], r[2],
                                                             r[3]))]
    /\ stages' = Append(stages, "asteroid spawn")
    /\ pc' = "g_bg"
    /\ UNCHANGED <<allocated_channels, action, cues, collIn>>
    /\ GameStageUnchanged

\* Lines 491-497.
GameView_update_bg ==
    /\ pc = "g_bg"
    /\ view' = [view EXCEPT !.bg = BgSet_update(@, dt)]
    /\ action' = Render(view')
    /\ stages' = Append(stages, "background")
    /\ pc' = "render"
    /\ UNCHANGED <<allocated_channels, cues, collIn, spawns>>
    /\ GameStageUnchanged

\* spawn_render rendering before the returned view is installed.
spawn_render_stale ==
    /\ pc = "render"
    /\ action.tag = "Render"
    /\ view' = action.view
    /\ drawn' = View_render(view)
    /\ calls' = [calls EXCEPT !.render = @ + 1]
    /\ pc' = "present"
    /\ UNCHANGED <<clock, before, dt, win, keys, now, allocated_channels,
                   action, cues, userKeys, inputs, frame, polled, keysBefore,
                   pre, stages, collIn, spawns, fresh>>

\* Lines 189-191: install the returned view and render it.
spawn_render ==
    /\ pc = "render"
    /\ action.tag = "Render"
    /\ view' = action.view
    /\ drawn' = View_render(action.view)
    /\ calls' = [calls EXCEPT !.render = @ + 1]
    /\ pc' = "present"
    /\ UNCHANGED <<clock, before, dt, win, keys, now, allocated_channels,
                   action, cues, userKeys, inputs, frame, polled, keysBefore, pre,
                   stages, collIn, spawns, fresh>>

\* Line 192: context.renderer.present().
spawn_present ==
    /\ pc = "present"
    /\ calls' = [calls EXCEPT !.present = @ + 1]
    /\ pc' = "tick"
    /\ UNCHANGED <<clock, before, dt, win, keys, now, allocated_channels,
                   view, action, cues, drawn, userKeys, inputs, frame, polled,
                   keysBefore, pre, stages, collIn, spawns, fresh>>

(***************************************************************************)
(* A run that has reached the Gameplay view some time ago: one more frame, *)
(* one more event and one more asteroid spawn are left of the run.  The    *)
(* entities are drawn from pools of states the game reaches; as after      *)
(* every collision pass, no asteroid overlaps a bullet or the player.      *)
(***************************************************************************)
RectBulletAt(x, y) == Bullet("RectBullet", x, y, 0, 0)

BulletPool ==
    << RectBulletAt(390000, 286500),
       RectBulletAt(391000, 300000),
       RectBulletAt(799000, 309500),
       [Bullet("SineBullet", 389000, 309500, 10, 15)
            EXCEPT !.total_time = 1000],
       RectBulletAt(200000, 100000) >>

AsteroidAt(x, y, vel, time) ==
    [rect |-> Rectangle(x, y, Px(ASTEROID_SIDE), Px(ASTEROID_SIDE)),
     vel |-> vel, fps |-> 10, time |-> time]

AsteroidPool ==
    << AsteroidAt(400000, 250000, 50, 8000),
       AsteroidAt(-95500, 300000, 50, 17910),
       AsteroidAt(109000, 260000, 100, 6910),
       AsteroidAt(400500, 302000, 50, 7990) >>

ExplosionPool ==
    << [rect |-> Rectangle(500000, 100000, Px(EXPLOSION_SIDE),
                           Px(EXPLOSION_SIDE)),
        alive_since |-> 1046, time |-> 1046],
       [rect |-> Rectangle(300000, 400000, Px(EXPLOSION_SIDE),
                           Px(EXPLOSION_SIDE)),
        alive_since |-> 100, time |-> 100] >>

\* The subsequence of `pool` at the indices I.
PickSeq(pool, I) ==
    LET F[k \in 0..Len(pool)] ==
            IF k = 0 THEN <<>>
            ELSE IF k \in I THEN Append(F[k - 1], pool[k]) ELSE F[k - 1]
    IN  F[Len(pool)]

SubSeqs(pool, n) ==
    {PickSeq(pool, I) : I \in {J \in SUBSET (1..Len(pool)) : Cardinality(J) <= n}}

NoOverlapAtRest(v) ==
    \A i \in 1..Len(v.asteroids) :
        /\ ~Rectangle_overlaps(v.asteroids[i].rect, v.player.rect)
        /\ BulletsHit(v.asteroids[i], v.bullets) = {}

InitGame ==
    /\ pc = "tick"
    /\ before = 0
    /\ clock = 0
    /\ dt = interval
    /\ win = <<WindowW, WindowH>>
    /\ userKeys = {"key_space", "key_right"}
    /\ keys = Events_new
    /\ now = ImmediateEvents_new
    /\ allocated_channels = InitialChannels
    /\ \/ \E cannon \in {CannonRect, CannonSine, CannonDivergent},
             bs \in SubSeqs(BulletPool, MaxBullets),
             as \in SubSeqs(AsteroidPool, MaxAsteroids),
             es \in {<<>>, ExplosionPool} :
               /\ view = [GameView_with_backgrounds(win, BgSet_new) EXCEPT
                            !.player.cannon = cannon, !.bullets = bs,
                            !.asteroids = as, !.explosions = es]
               /\ NoOverlapAtRest(view)
       \/ \E sel \in 0..(Len(Actions) - 1) :
               view = [MainMenuView_new EXCEPT !.selected = sel]
    /\ action = Render(view)
    /\ cues = NoCues
    /\ drawn = Nothing
    /\ inputs = MaxInputs - 1
    /\ frame = MaxFrames - 1
    /\ calls = NoCalls
    /\ polled = <<>>
    /\ keysBefore = keys
    /\ pre = Nothing
    /\ stages = <<>>
    /\ collIn = Nothing
    /\ spawns = MaxSpawns - 1
    /\ fresh = FALSE

(***************************************************************************)
(* A run in which the backgrounds have scrolled for a while, in the menu   *)
(* or in a game just begun, with two frames and three events left and a    *)
(* user on the weapon and fire keys or on the cancel and confirm keys.     *)
(***************************************************************************)
BgScrolled ==
    [back |-> [Background(20) EXCEPT !.pos = 127680],
     middle |-> [Background(40) EXCEPT !.pos = 255360],
     front |-> [Background(80) EXCEPT !.pos = 510720]]

PlayKeySets ==
    {{"key_2", "key_3", "key_space"}, {"key_escape", "key_return"}}

InitPlay ==
    /\ pc = "tick"
    /\ before = 0
    /\ clock = 0
    /\ dt = interval
    /\ win = <<WindowW, WindowH>>
    /\ userKeys \in PlayKeySets
    /\ keys = Events_new
    /\ now = ImmediateEvents_new
    /\ allocated_channels = InitialChannels
    /\ view \in {GameView_with_backgrounds(win, BgScrolled),
                 MainMenuView_with_backgrounds(BgScrolled)}
    /\ action = Render(view)
    /\ cues = NoCues
    /\ drawn = Nothing
    /\ inputs = MaxInputs - 3
    /\ frame = MaxFrames - 2
    /\ calls = NoCalls
    /\ polled = <<>>
    /\ keysBefore = keys
    /\ pre = Nothing
    /\ stages = <<>>
    /\ collIn = Nothing
    /\ spawns = MaxSpawns - 1
    /\ fresh = FALSE

(***************************************************************************)
(* The updates of the player, of one bullet, of the backgrounds and of the *)
(* menu, each taken alone on inputs drawn from the cases below: the window *)
(* sizes, the elapsed times, the keys held and the edges of a poll.        *)
(***************************************************************************)
Stall == 1600
LongStall == 13000
Elapsed == {interval, 2 * interval + 1}

WindowSizes ==
    {<<WindowW, WindowH>>, <<PLAYER_W, PLAYER_H>>, <<61, PLAYER_H>>,
     <<62, PLAYER_H + 1>>, <<100, 100>>}

DirectionKeys == {"key_up", "key_down", "key_left", "key_right"}

Held(ks) == [k \in Keys |-> k \in ks]
JustPressed(ks) ==
    [ImmediateEvents_new EXCEPT
        !.key = [k \in Keys |-> IF k \in ks THEN SomeTrue ELSE None]]

\* Where the player is: where Player::new puts it, or in a corner of the
\* movable region.
PlayerSpots(size) ==
    LET p == Player_new(size).rect
        right == (Px(size[1]) * 70) \div 100 - p.w
        bottom == Px(size[2]) - p.h
    IN  {<<p.x, p.y>>} \cup
        (IF right >= 0 /\ bottom >= 0
         THEN {<<0, 0>>, <<right, bottom>>} ELSE {})

\* A bullet in flight from a cannon of a player at x0 for t ms.
Flown(kind, x0, y, a, b, t) ==
    [Bullet(kind, x0 + Px(CannonDX) + BULLET_SPEED * t, y, a, b)
        EXCEPT !.total_time = IF kind = "RectBullet" THEN 0 ELSE t]

BulletCases ==
    { Flown("RectBullet", 64000, 100000, 0, 0, 500),
      Flown("RectBullet", 64000, 100000, 0, 0, 2900),
      Flown("RectBullet", 64000, 100000, 0, 0, 2926),
      Flown("RectBullet", 70160, 100000, 0, 0, 2900),
      Flown("SineBullet", 64000, 6000, 10, 15, 314),
      Flown("SineBullet", 64000, 300000, 10, 15, 2900),
      Flown("SineBullet", 65000, 300000, 10, 15, 2925),
      Flown("DivergentBullet", 64000, 6000, -100, 1200, 1260),
      Flown("DivergentBullet", 64000, 590000, 100, 1200, 1300),
      Flown("DivergentBullet", 64000, 300000, 100, 1200, 500),
      Flown("DivergentBullet", 517000, 300000, 100, 1200, 1050) }

BgCases == {BgSet_new, BgScrolled}

MenuEdges == SUBSET {"key_up", "key_down", "key_space", "key_escape"}

InitUnit ==
    /\ before = 0
    /\ clock = 0
    /\ userKeys = {}
    /\ allocated_channels = InitialChannels
    /\ action = NoAction
    /\ cues = NoCues
    /\ drawn = Nothing
    /\ inputs = MaxInputs
    /\ frame = MaxFrames
    /\ calls = [NoCalls EXCEPT !.poll = 1]
    /\ polled = <<>>
    /\ stages = <<>>
    /\ collIn = Nothing
    /\ spawns = MaxSpawns
    /\ fresh = FALSE
    /\ \/ /\ pc = "g_player"
          /\ win \in WindowSizes
          /\ dt \in Elapsed \cup {Stall}
          /\ \E ks \in SUBSET DirectionKeys : keys = Held(ks)
          /\ now = ImmediateEvents_new
          /\ \E at \in PlayerSpots(win) :
                view = [GameView_with_backgrounds(win, BgSet_new) EXCEPT
                            !.player.rect.x = at[1], !.player.rect.y = at[2]]
       \/ /\ pc = "g_bullets"
          /\ win = <<WindowW, WindowH>>
          /\ dt \in Elapsed
          /\ keys = Events_new
          /\ now = ImmediateEvents_new
          /\ \E b \in BulletCases :
                view = [GameView_with_backgrounds(win, BgSet_new) EXCEPT
                            !.bullets = <<b>>]
       \/ /\ pc = "g_bg"
          /\ win = <<WindowW, WindowH>>
          /\ dt \in Elapsed \cup {Stall, LongStall}
          /\ keys = Events_new
          /\ now = ImmediateEvents_new
          /\ \E bg \in BgCases : view = GameView_with_backgrounds(win, bg)
       \/ /\ pc = "update"
          /\ win = <<WindowW, WindowH>>
          /\ dt \in Elapsed
          /\ keys = Events_new
          /\ \E es \in MenuEdges, q \in BOOLEAN :
                now = [JustPressed(es) EXCEPT !.quit = q]
          /\ \E sel \in 0..(Len(Actions) - 1), bg \in BgCases :
                view = [MainMenuView_with_backgrounds(bg) EXCEPT
                            !.selected = sel]
    /\ keysBefore = keys
    /\ pre = view

(***************************************************************************)
(* A game in which the player has just fired: the two bullets of one shot  *)
(* are at their spawn position with total_time 0 when the loop is entered, *)
(* two frames are left, and the user may still press escape.               *)
(***************************************************************************)
InitFlight ==
    /\ pc = "tick"
    /\ before = 0
    /\ clock = 0
    /\ dt = 0
    /\ win = <<WindowW, WindowH>>
    /\ userKeys = {"key_escape"}
    /\ keys = Events_new
    /\ now = ImmediateEvents_new
    /\ allocated_channels = InitialChannels
    /\ \E cannon \in {CannonRect, CannonSine, CannonDivergent},
          at \in PlayerSpots(win) :
            LET game == [GameView_with_backgrounds(win, BgSet_new) EXCEPT
                            !.player.cannon = cannon,
                            !.player.rect.x = at[1],
                            !.player.rect.y = at[2]]
            IN  view = [game EXCEPT
                            !.bullets = Player_spawn_bullets(game.player)]
    /\ action = Render(view)
    /\ cues = NoCues
    /\ drawn = Nothing
    /\ inputs = MaxInputs - 1
    /\ frame = MaxFrames - 2
    /\ calls = NoCalls
    /\ polled = <<>>
    /\ keysBefore = keys
    /\ pre = Nothing
    /\ stages = <<>>
    /\ collIn = Nothing
    /\ spawns = MaxSpawns - 1
    /\ fresh = FALSE

(***************************************************************************)
(* Phi::play_sound followed attempt by attempt, for the sound of the first *)
(* shot of a game: the bullets are appended, the pool has its 32 channels, *)
(* and the mixer decides each attempt.  An overflowing `*= 2` panics in a  *)
(* build with overflow checks and wraps in one without.                    *)
(***************************************************************************)
InitSound ==
    /\ pc = "play_sound"
    /\ before = 0
    /\ clock = 0
    /\ dt = interval
    /\ win = <<WindowW, WindowH>>
    /\ userKeys = {"key_space"}
    /\ keys = Held({"key_space"})
    /\ now = JustPressed({"key_space"})
    /\ allocated_channels = InitialChannels
    /\ \E cannon \in {CannonRect, CannonSine, CannonDivergent},
          at \in PlayerSpots(win) :
            LET game == [GameView_with_backgrounds(win, BgSet_new) EXCEPT
                            !.player.cannon = cannon,
                            !.player.rect.x = at[1],
                            !.player.rect.y = at[2]]
            IN  view = [game EXCEPT
                            !.bullets = Player_spawn_bullets(game.player)]
    /\ action = NoAction
    /\ cues = NoCues
    /\ drawn = Nothing
    /\ inputs = MaxInputs
    /\ frame = MaxFrames
    /\ calls = [NoCalls EXCEPT !.poll = 1, !.update = 1]
    /\ polled = <<>>
    /\ keysBefore = keys
    /\ pre = Nothing
    /\ stages = <<"player", "bullets", "asteroids", "explosions", "collision">>
    /\ collIn = Nothing
    /\ spawns = MaxSpawns
    /\ fresh = FALSE

SoundUnchanged ==
    UNCHANGED <<clock, before, dt, win, keys, now, view, action, drawn,
                userKeys, inputs, frame, calls, polled, keysBefore, pre,
                collIn, spawns, fresh>>

\* Lines 89 and 99: Channel::all().play(sound, 0) is Ok, the call returns.
Phi_play_sound_ok ==
    /\ pc = "play_sound"
    /\ cues' = [cues EXCEPT !.bullet = @ + 1]
    /\ stages' = Append(stages, "bullet spawn")
    /\ pc' = "g_spawn"
    /\ UNCHANGED allocated_channels
    /\ SoundUnchanged

\* Lines 90-96: the attempt is Err, the pool is doubled and play_sound
\* calls itself.
Phi_play_sound_err ==
    /\ pc = "play_sound"
    /\ \/ /\ allocated_channels' = I32Double(allocated_channels)
          /\ pc' = "play_sound"
       \/ /\ I32DoubleOverflows(allocated_channels)
          /\ pc' = "panic"
          /\ UNCHANGED allocated_channels
    /\ UNCHANGED <<cues, stages>>
    /\ SoundUnchanged

NextSound ==
    \/ Phi_play_sound_ok
    \/ Phi_play_sound_err

(***************************************************************************)
(* A game late in the life of its entities: three bullets close to the     *)
(* right or the top of the screen, two asteroids close to the left edge,   *)
(* LifeFrames frames left of the run, no asteroid left to spawn, and a     *)
(* user who may still press escape.                                        *)
(***************************************************************************)
LifeFrames == 8

LifeBullets ==
    << Flown("RectBullet", 64000, 286500, 0, 0, 2900),
       Flown("SineBullet", 64000, 309500, 10, 15, 2880),
       Flown("DivergentBullet", 64000, 6000, -100, 1200, 1200) >>

LifeAsteroids ==
    << AsteroidAt(-92000, 100000, 50, 17840),
       AsteroidAt(-85000, 400000, 149, 5940) >>

InitLife ==
    /\ pc = "tick"
    /\ before = 0
    /\ clock = 0
    /\ dt = interval
    /\ win = <<WindowW, WindowH>>
    /\ userKeys = {"key_escape"}
    /\ keys = Events_new
    /\ now = ImmediateEvents_new
    /\ allocated_channels = InitialChannels
    /\ \E bs \in {LifeBullets, <<LifeBullets[1]>>},
          as \in {LifeAsteroids, <<LifeAsteroids[1]>>} :
            view = [GameView_with_backgrounds(win, BgScrolled) EXCEPT
                        !.bullets = bs, !.asteroids = as]
    /\ action = Render(view)
    /\ cues = NoCues
    /\ drawn = Nothing
    /\ inputs = MaxInputs - 1
    /\ frame = MaxFrames - LifeFrames
    /\ calls = NoCalls
    /\ polled = <<>>
    /\ keysBefore = keys
    /\ pre = Nothing
    /\ stages = <<>>
    /\ collIn = Nothing
    /\ spawns = MaxSpawns
    /\ fresh = FALSE

NextUnit ==
    \/ GameView_update_player
    \/ GameView_update_bullets
    \/ GameView_update_bg
    \/ spawn_update_menu

Next ==
    \/ spawn_tick
    \/ spawn_pump
    \/ spawn_update_menu
    \/ GameView_update_enter
    \/ GameView_update_player
    \/ GameView_update_bullets
    \/ GameView_update_asteroids
    \/ GameView_update_explosions
    \/ GameView_update_collide
    \/ GameView_update_fire
    \/ GameView_update_spawn
    \/ GameView_update_bg
    \/ spawn_render
    \/ spawn_present

Spec == Init /\ [][Next]_vars

SpecGame == InitGame /\ [][Next]_vars

SpecPlay == InitPlay /\ [][Next]_vars

SpecUnit == InitUnit /\ [][NextUnit]_vars

SpecFlight == InitFlight /\ [][Next]_vars

SpecSound == InitSound /\ [][NextSound]_vars

\* The loop of spawn has no exit but the terminate directive: as long as a
\* step is possible, one is taken.
SpecLife == InitLife /\ [][Next]_vars /\ WF_vars(Next)

(***************************************************************************)
(* The claims.                                                             *)
(***************************************************************************)
\* The level flag of key k when the i-th event of the poll is processed.
LevelAt(k, i) ==
    LET earlier == {j \in 1..(i - 1) :
                       polled[j].k = k /\ polled[j].t \in {"KeyDown", "KeyUp"}}
    IN  IF earlier = {} THEN keysBefore[k]
        ELSE polled[CHOOSE j \in earlier : \A m \in earlier : m <= j].t
                = "KeyDown"

PressedAt(k, i) == polled[i] = Ev("KeyDown", k) /\ ~LevelAt(k, i)

\* C1: after a poll, a key's edge is just-pressed only if the poll processed
\* a KeyDown for it while its level flag was false; a key that was held when
\* the poll began and got no KeyUp in it has the edge unchanged (None),
\* whatever key-repeat KeyDown events the poll processed.
C1_EdgeOnlyOnPress ==
    pc = "update" =>
        \A k \in Keys :
            /\ now.key[k] = SomeTrue =>
                    \E i \in 1..Len(polled) : PressedAt(k, i)
            /\ (keysBefore[k]
                    /\ \A i \in 1..Len(polled) : polled[i] # Ev("KeyUp", k))
                => now.key[k] = None

C1_Witness ==
    /\ pc = "update"
    /\ \E k \in Keys :
        /\ keysBefore[k]
        /\ \E i \in 1..Len(polled) : polled[i] = Ev("KeyDown", k)
        /\ \A i \in 1..Len(polled) : polled[i] # Ev("KeyUp", k)
        /\ now.key[k] = None

\* The kind of the view the loop holds; Terminated once update has
\* returned ViewAction::Quit.
KindNow ==
    IF pc = "done" THEN "Terminated"
    ELSE IF pc = "render" THEN action.view.kind
    ELSE view.kind

Confirm == now.key["key_space"] = SomeTrue \/ now.key["key_return"] = SomeTrue
Selected == Actions[view.selected + 1]

\* C2: the view kind changes only in an update, the one that follows the
\* poll of its frame, and only by MainMenu -> Gameplay on confirm with
\* "New Game" selected, Gameplay -> MainMenu on escape just-pressed,
\* MainMenu -> Terminated on quit, escape just-pressed or confirm with
\* "Quit" selected, Gameplay -> Terminated on quit.
C2_Transitions ==
    [][KindNow' # KindNow =>
        /\ pc = "update" /\ calls.poll = 1 /\ calls.update = 0
        /\ now' = now
        /\ \/ /\ KindNow = "MainMenu" /\ KindNow' = "Gameplay"
              /\ Confirm /\ Selected = "New Game"
           \/ /\ KindNow = "Gameplay" /\ KindNow' = "MainMenu"
              /\ now.key["key_escape"] = SomeTrue
           \/ /\ KindNow = "MainMenu" /\ KindNow' = "Terminated"
              /\ \/ now.quit
                 \/ now.key["key_escape"] = SomeTrue
                 \/ Confirm /\ Selected = "Quit"
           \/ /\ KindNow = "Gameplay" /\ KindNow' = "Terminated"
              /\ now.quit]_vars

C2_Witness ==
    /\ pc = "present"
    /\ pre # Nothing /\ pre.kind = "Gameplay"
    /\ view.kind = "MainMenu"
    /\ frame = 2

\* C3 as claimed: the view a render call draws has had update invoked on it
\* since it became the current view.
C3_RenderedViewWasUpdated ==
    pc = "present" => ~fresh

\* C3 as amended: every render call follows the update call of its frame
\* and draws the view that update returned; that view has had update
\* invoked on it exactly when the update returned the view it was invoked
\* on, and is rendered before its own first update when the update
\* constructed it for a change of kind.
C3_RenderFollowsUpdate ==
    pc = "present" =>
        /\ calls.update = 1 /\ calls.render = 1
        /\ pre # Nothing
        /\ view = action.view
        /\ drawn = View_render(view)
        /\ fresh <=> view.kind # pre.kind

C3_Witness ==
    /\ pc = "present"
    /\ fresh
    /\ drawn.kind = "Gameplay"

Exited == pc \in {"done", "panic"}

\* C4: a frame is one poll, then one update, then on a render directive the
\* install of the returned view, one render and one present; the loop is
\* left only when update returned terminate, and then without render or
\* present.
C4_FrameOrder ==
    /\ pc = "pump" => calls = NoCalls
    /\ pc = "update" => calls = [NoCalls EXCEPT !.poll = 1]
    /\ pc = "render" =>
            /\ calls = [NoCalls EXCEPT !.poll = 1, !.update = 1]
            /\ action.tag = "Render"
    /\ pc = "present" =>
            /\ calls = [NoCalls EXCEPT !.poll = 1, !.update = 1, !.render = 1]
            /\ view = action.view
    /\ (pc \in {"tick", "retry"} /\ calls # NoCalls) =>
            calls = [poll |-> 1, update |-> 1, render |-> 1, present |-> 1]
    /\ Exited =>
            /\ action.tag = "Quit"
            /\ calls = [NoCalls EXCEPT !.poll = 1, !.update = 1]

\* C5 as claimed: every elapsed value handed to update is at least 1/60 s.
C5_ElapsedAtLeastSixtieth ==
    pc = "update" => 60 * dt >= MsPerSecond

\* C5 as amended: an iteration that measures less than the interval of
\* 1000 / 60 = 16 ms (integer division) sleeps and retries: no poll, update
\* or render, `before` unchanged; every elapsed value handed to update is at
\* least 16 ms.
C5_FixedStep ==
    [][/\ (pc \in {"tick", "retry"} /\ dt' < interval) =>
            /\ pc' = "retry"
            /\ UNCHANGED <<before, calls, frame, keys, now, view, action,
                           drawn, cues>>
       /\ pc' \notin {"tick", "retry"} => dt' >= interval]_vars

C5_Witness ==
    /\ pc = "retry"
    /\ frame > 0
    /\ dt = interval - 1

PipelineOrder ==
    << "player", "bullets", "asteroids", "explosions", "collision",
       "bullet spawn", "asteroid spawn", "background" >>

IsPrefix(s, t) == Len(s) <= Len(t) /\ SubSeq(t, 1, Len(s)) = s

\* The frame's Gameplay update has run its collision pass.
PassDone ==
    /\ pc \in {"g_fire", "g_spawn", "g_bg", "render", "present"}
    /\ collIn # Nothing

\* The frame's Gameplay update has run the whole pipeline.
PipelineDone ==
    /\ pc \in {"render", "present"}
    /\ pre # Nothing /\ pre.kind = "Gameplay"
    /\ action.view.kind = "Gameplay"

\* C6: the stages of a Gameplay update run in the order player, bullets,
\* asteroids, explosions, collision, bullet spawn, asteroid spawn,
\* background, and an update that reaches them runs all eight; the
\* collision pass is given the player, bullets and asteroids as this
\* frame's movement left them.
C6_PipelineOrder ==
    /\ IsPrefix(stages, PipelineOrder)
    /\ PipelineDone => stages = PipelineOrder
    /\ PassDone =>
        /\ collIn.player = Player_update(pre.player, now, keys, win, dt).rect
        /\ collIn.bullets =
                Collect([i \in 1..Len(pre.bullets) |->
                            Bullet_update(pre.bullets[i], win, dt)])
        /\ collIn.asteroids =
                Collect([i \in 1..Len(pre.asteroids) |->
                            Asteroid_update(pre.asteroids[i], dt)])

\* An asteroid is destroyed by a bullet it did not overlap before moving.
C6_Witness ==
    /\ pc = "present"
    /\ stages = PipelineOrder
    /\ NoOverlapAtRest(pre)
    /\ pre.player.rect # collIn.player
    /\ \E i \in 1..Len(collIn.asteroids), j \in 1..Len(collIn.bullets) :
            Rectangle_overlaps(collIn.asteroids[i].rect,
                               Bullet_rect(collIn.bullets[j]))

\* The bullet overlaps some asteroid the collision pass was given.
BulletOverlapsSome(b) ==
    \E i \in 1..Len(collIn.asteroids) :
        Rectangle_overlaps(collIn.asteroids[i].rect, Bullet_rect(b))

\* The asteroid overlaps some bullet, or the player, the pass was given.
AsteroidOverlapsSome(a) ==
    \/ Rectangle_overlaps(a.rect, collIn.player)
    \/ \E j \in 1..Len(collIn.bullets) :
            Rectangle_overlaps(a.rect, Bullet_rect(collIn.bullets[j]))

\* C7: the collision pass removes a bullet exactly when its rectangle
\* overlaps at least one asteroid of the pass; the bullets left are, in
\* order, those that overlap none.
C7_AllOverlappingBulletsRemoved ==
    pc = "g_fire" =>
        view.bullets =
            SelectSeq(collIn.bullets, LAMBDA b : ~BulletOverlapsSome(b))

\* One asteroid overlaps three bullets and the pass removes all three.
C7_Witness ==
    /\ pc = "g_fire"
    /\ \E i \in 1..Len(collIn.asteroids) :
        LET hit == {j \in 1..Len(collIn.bullets) :
                        Rectangle_overlaps(collIn.asteroids[i].rect,
                                           Bullet_rect(collIn.bullets[j]))}
        IN  /\ Cardinality(hit) >= 3
            /\ Len(view.bullets) <= Len(collIn.bullets) - 3
            /\ \A j \in hit, m \in 1..Len(view.bullets) :
                    view.bullets[m] # collIn.bullets[j]

Destroyed == SelectSeq(collIn.asteroids, AsteroidOverlapsSome)

Range(s) == {s[i] : i \in 1..Len(s)}

\* C8: a Gameplay update adds one explosion, and plays one explosion sound,
\* per asteroid its collision pass removes, centred on the asteroid's
\* centre, however many bullets or the player the asteroid overlapped;
\* asteroids removed at the left edge add none; no destroyed asteroid or
\* bullet is among what render draws that frame.
C8_OneExplosionPerDestroyedAsteroid ==
    /\ PassDone =>
        LET old == Len(collIn.explosions)
            cur == IF pc = "render" THEN action.view ELSE view
        IN  /\ cues.explosion = Len(Destroyed)
            /\ Len(cur.explosions) = old + Len(Destroyed)
            /\ SubSeq(cur.explosions, 1, old) = collIn.explosions
            /\ \A i \in 1..Len(Destroyed) :
                /\ Rectangle_center2(cur.explosions[old + i].rect)
                        = Rectangle_center2(Destroyed[i].rect)
                /\ cur.explosions[old + i].alive_since = 0
            /\ pc = "g_fire" =>
                    Len(cur.asteroids)
                        = Len(collIn.asteroids) - Len(Destroyed)
    /\ (PassDone /\ pc = "present") =>
        /\ drawn.explosions = view.explosions
        /\ \A i \in 1..Len(Destroyed) :
                Destroyed[i] \notin Range(drawn.asteroids)
        /\ \A j \in 1..Len(collIn.bullets) :
                BulletOverlapsSome(collIn.bullets[j]) =>
                    Bullet_rect(collIn.bullets[j]) \notin Range(drawn.bullets)
    /\ (pc \in {"render", "present", "done"} /\ collIn = Nothing) =>
            cues.explosion = 0

\* An asteroid hit by two bullets or more is destroyed in a frame in which
\* another asteroid left by the left edge.
C8_Witness ==
    /\ pc = "present"
    /\ PassDone
    /\ Len(collIn.asteroids) < Len(pre.asteroids)
    /\ Len(drawn.explosions) = Len(collIn.explosions) + 1
    /\ \E i \in 1..Len(collIn.asteroids) :
            Cardinality({j \in 1..Len(collIn.bullets) :
                            Rectangle_overlaps(collIn.asteroids[i].rect,
                                Bullet_rect(collIn.bullets[j]))}) >= 2

\* The j-th smallest element of the set S of indices.
Nth(S, j) == CHOOSE i \in S : Cardinality({m \in S : m < i}) = j - 1

\* The indices of the bullets and asteroids of the view before the update
\* that survive their own update and the collision pass.
SurvivingBullets ==
    {i \in 1..Len(pre.bullets) :
        LET b == Bullet_update(pre.bullets[i], win, dt)
        IN  b # Nothing /\ ~BulletOverlapsSome(b)}

SurvivingAsteroids ==
    {i \in 1..Len(pre.asteroids) :
        LET a == Asteroid_update(pre.asteroids[i], dt)
        IN  a # Nothing /\ ~AsteroidOverlapsSome(a)}

\* C9: after a Gameplay update the bullets and the asteroids begin with the
\* survivors of the update and of the collision pass, in the order they had
\* before the update, the dead ones dropped; whatever follows them was
\* spawned in this frame: bullets at the cannons of the player, one
\* asteroid at the right edge.
C9_SurvivorsKeepOrder ==
    PipelineDone =>
        LET bs == action.view.bullets
            as == action.view.asteroids
            nb == Cardinality(SurvivingBullets)
            na == Cardinality(SurvivingAsteroids)
        IN  /\ Len(bs) >= nb
            /\ \A j \in 1..nb :
                    bs[j] = Bullet_update(pre.bullets[Nth(SurvivingBullets, j)],
                                          win, dt)
            /\ \A j \in (nb + 1)..Len(bs) :
                    /\ bs[j].total_time = 0
                    /\ bs[j].pos_x = action.view.player.rect.x + Px(CannonDX)
            /\ Len(as) \in {na, na + 1}
            /\ \A j \in 1..na :
                    as[j] = Asteroid_update(
                                pre.asteroids[Nth(SurvivingAsteroids, j)], dt)
            /\ \A j \in (na + 1)..Len(as) :
                    as[j].rect.x = Px(win[1]) /\ as[j].time = 0

\* Two bullets survive around one that is destroyed, and bullets and an
\* asteroid are spawned behind the survivors.
C9_Witness ==
    /\ pc = "render"
    /\ PipelineDone
    /\ \E i, k \in SurvivingBullets :
        \E d \in 1..Len(pre.bullets) :
            i < d /\ d < k /\ d \notin SurvivingBullets
    /\ Len(action.view.bullets) > Cardinality(SurvivingBullets)
    /\ Cardinality(SurvivingAsteroids) >= 1
    /\ Len(action.view.asteroids) > Cardinality(SurvivingAsteroids)

FirePressed == now.key["key_space"] = SomeTrue

\* C10: a Gameplay update that runs its pipeline spawns bullets exactly
\* when the fire key's edge of the frame's poll is just-pressed, and none
\* before its collision pass is over; the bullets spawned follow the ones
\* the pass left, unmoved, and render draws them at the player's cannons:
\* time since spawn 0, vertical offset 0.  An update that returns on quit
\* or escape spawns none.
C10_SpawnAfterCollision ==
    /\ pc \in {"g_player", "g_bullets", "g_asteroids", "g_explosions",
               "g_collide", "g_fire"} => cues.bullet = 0
    /\ (pc \in {"render", "present", "done"} /\ stages = <<>>) =>
            cues.bullet = 0
    /\ (pc = "present" /\ PipelineDone) =>
        LET left == SelectSeq(collIn.bullets,
                              LAMBDA b : ~BulletOverlapsSome(b))
            n == Len(left)
            new == SubSeq(view.bullets, n + 1, Len(view.bullets))
            p == view.player.rect
        IN  /\ IsPrefix(left, view.bullets)
            /\ new # <<>> <=> FirePressed
            /\ cues.bullet = (IF FirePressed THEN 1 ELSE 0)
            /\ Len(drawn.bullets) = Len(view.bullets)
            /\ \A i \in 1..Len(new) :
                /\ new[i].total_time = 0
                /\ new[i].origin_y \in {p.y + Px(Cannon1DY),
                                        p.y + Px(PLAYER_H) - Px(Cannon2DY)}
                /\ drawn.bullets[n + i] =
                        Rectangle(p.x + Px(CannonDX), new[i].origin_y,
                                  Px(BULLET_W), Px(BULLET_H))

\* Sine bullets are fired in a frame whose collision pass removed a bullet.
C10_Witness ==
    /\ pc = "present"
    /\ PipelineDone
    /\ FirePressed
    /\ view.player.cannon.kind = "SineBullet"
    /\ \E j \in 1..Len(collIn.bullets) : BulletOverlapsSome(collIn.bullets[j])
    /\ Len(drawn.bullets) >= 3

\* The bullets the collision pass left, and the ones behind them.
LeftByPass == SelectSeq(collIn.bullets, LAMBDA b : ~BulletOverlapsSome(b))
Spawned == SubSeq(view.bullets, Len(LeftByPass) + 1, Len(view.bullets))

\* C11: a shot spawns exactly two bullets of the cannon's type, both at the
\* cannons' x, the first at the upper and the second at the lower mount;
\* the two of a Divergent cannon {a, b} have the same b and a mirrored:
\* -a, then +a.
C11_TwoBulletsPerShot ==
    (pc = "g_spawn" /\ FirePressed) =>
        LET c == view.player.cannon
            p == view.player.rect
        IN  /\ Len(Spawned) = 2
            /\ \A i \in 1..2 :
                /\ Spawned[i].kind = c.kind
                /\ Spawned[i].pos_x = p.x + Px(CannonDX)
                /\ Spawned[i].b = c.b
            /\ Spawned[1].origin_y = p.y + Px(Cannon1DY)
            /\ Spawned[2].origin_y = p.y + Px(PLAYER_H) - Px(Cannon2DY)
            /\ Spawned[1].origin_y # Spawned[2].origin_y
            /\ c.kind = "DivergentBullet" =>
                    Spawned[1].a = -c.a /\ Spawned[2].a = c.a
            /\ c.kind = "SineBullet" =>
                    Spawned[1].a = c.a /\ Spawned[2].a = c.a

C11_Witness ==
    /\ pc = "g_spawn"
    /\ FirePressed
    /\ view.player.cannon = CannonDivergent
    /\ Len(LeftByPass) >= 1
    /\ Spawned[1].a = -100 /\ Spawned[2].a = 100

WeaponKeys == {"key_1", "key_2", "key_3"}

\* The weapon key pressed last in the poll, "none" if none was.
LastWeaponPress ==
    LET P == {i \in 1..Len(polled) : \E k \in WeaponKeys : PressedAt(k, i)}
    IN  IF P = {} THEN "none"
        ELSE polled[CHOOSE i \in P : \A m \in P : m <= i].k

IsSineShot(bs, x) ==
    /\ Len(bs) = 2
    /\ \A i \in 1..2 :
        /\ bs[i].kind = "SineBullet"
        /\ bs[i].a = 10 /\ bs[i].b = 15
        /\ bs[i].pos_x = x + Px(CannonDX)

\* C12 as claimed: in a Gameplay update whose poll has key 2 just-pressed
\* and no weapon key pressed after it, the cannon becomes the Sine cannon
\* and a fire edge of the same poll adds two SineBullets, amplitude 10,
\* angular_vel 15, at the updated player's x + 30.
C12_Key2SelectsSine ==
    (/\ pc = "update" /\ view.kind = "Gameplay"
     /\ ~now.quit /\ now.key["key_escape"] # SomeTrue
     /\ now.key["key_2"] = SomeTrue
     /\ LastWeaponPress = "key_2") =>
        LET p == Player_update(view.player, now, keys, win, dt)
        IN  p # Nothing =>
                /\ p.cannon = CannonSine
                /\ FirePressed => IsSineShot(Player_spawn_bullets(p), p.rect.x)

\* The cannon Player::update selects: the weapon keys' edges are tested in
\* the order 1, 2, 3, the last one just-pressed wins.
SelectedCannon ==
    IF now.key["key_3"] = SomeTrue THEN CannonDivergent
    ELSE IF now.key["key_2"] = SomeTrue THEN CannonSine
    ELSE IF now.key["key_1"] = SomeTrue THEN CannonRect
    ELSE pre.player.cannon

\* C12 as amended: the cannon after a Gameplay update is the one of the
\* highest-numbered weapon key just-pressed in the frame's poll, and the
\* cannon before the update when none is; so after key 2 was just-pressed
\* without key 3 in the same poll and with no weapon key since, a fire
\* edge of that or of a later frame adds exactly two SineBullets,
\* amplitude 10, angular_vel 15, at the updated player's x + 30.
C12_SineCannonPersists ==
    /\ CannonSine = [kind |-> "SineBullet", a |-> 10, b |-> 15]
    /\ (pc = "present" /\ PipelineDone) =>
        /\ view.player.cannon = SelectedCannon
        /\ (FirePressed /\ view.player.cannon = CannonSine) =>
                IsSineShot(Spawned, view.player.rect.x)

\* Key 2 was pressed in an earlier frame, fire in this one.
C12_Witness ==
    /\ pc = "present"
    /\ PipelineDone
    /\ pre.player.cannon = CannonSine
    /\ \A k \in WeaponKeys : now.key[k] = None
    /\ FirePressed
    /\ IsSineShot(Spawned, view.player.rect.x)

\* Player::update has returned in this frame.
PlayerUpdated == stages # <<>> /\ stages[1] = "player"

\* C13: after a Player::update that returns, whatever direction keys are
\* held and whatever time has elapsed, the player's rectangle lies inside
\* the movable region, x from 0 to 70% of the window's width and y from 0
\* to its height; its right edge is short of x = window width, where
\* asteroids are spawned, and it overlaps no asteroid at its spawn position.
C13_PlayerConfined ==
    PlayerUpdated =>
        LET r == view.player.rect
        IN  /\ 0 <= r.x /\ 100 * (r.x + r.w) <= 70 * Px(win[1])
            /\ 0 <= r.y /\ r.y + r.h <= Px(win[2])
            /\ r.x + r.w < Px(win[1])
            /\ \A y \in {0, r.y, Px(win[2]) - Px(ASTEROID_SIDE)} :
                    ~Rectangle_overlaps(
                        r, AsteroidFactory_random(win, y, 50, 10).rect)

\* The player, held against the right and bottom sides of the movable
\* region and driven further for a long frame, stays at its corner.
C13_Witness ==
    /\ PlayerUpdated
    /\ win = <<WindowW, WindowH>>
    /\ keys["key_right"] /\ keys["key_down"]
    /\ ~keys["key_left"] /\ ~keys["key_up"]
    /\ dt = Stall
    /\ view.player.rect.x = Px(560) - Px(PLAYER_W)
    /\ view.player.rect.y = Px(WindowH) - Px(PLAYER_H)
    /\ pre.player.rect = view.player.rect
    /\ view.player.current = "DownFast"

Layers(bg) == {bg.back, bg.middle, bg.front}

\* C15: after an update of the backgrounds, every layer's pos is at least 0
\* and below the width of its sprite.
C15_PositionWithinSprite ==
    /\ (stages # <<>> /\ stages[Len(stages)] = "background") =>
            \A layer \in Layers(view.bg) :
                0 <= layer.pos /\ layer.pos < layer.w
    /\ (pc = "render" /\ action.tag = "Render" /\ pre # Nothing
            /\ pre.kind = "MainMenu" /\ action.view.kind = "MainMenu") =>
            \A layer \in Layers(action.view.bg) :
                0 <= layer.pos /\ layer.pos < layer.w

\* An update of one kind of view has returned a view of the other kind.
Switched ==
    /\ pc \in {"render", "present"}
    /\ pre # Nothing
    /\ action.tag = "Render"
    /\ action.view.kind # pre.kind

\* C16: the view returned by a transition between Gameplay and MainMenu has
\* the three background layers, pos and vel, that the view it replaces had
\* when that update began.
C16_BackgroundsCarriedOver ==
    Switched =>
        /\ action.view.bg = pre.bg
        /\ \A l \in {"back", "middle", "front"} :
                /\ action.view.bg[l].pos = pre.bg[l].pos
                /\ action.view.bg[l].vel = pre.bg[l].vel

\* A menu whose layers have scrolled, and scrolled further in an earlier
\* frame, is left for the game.
C16_Witness ==
    /\ Switched
    /\ pre.kind = "MainMenu"
    /\ action.view.kind = "Gameplay"
    /\ frame = MaxFrames
    /\ \A layer \in Layers(action.view.bg) : layer.pos > Px(SpriteW) \div 8
    /\ action.view.bg # BgScrolled

\* An update of the menu has returned the menu.
MenuUpdated ==
    /\ pc = "render"
    /\ pre # Nothing
    /\ pre.kind = "MainMenu"
    /\ action.tag = "Render"
    /\ action.view.kind = "MainMenu"

Previous(i) == IF i = 0 THEN Len(Actions) - 1 ELSE i - 1
Following(i) == IF i = Len(Actions) - 1 THEN 0 ELSE i + 1

\* C17: every menu view has 0 <= selected < number of actions; an update
\* with an up edge moves selected to the previous index, from 0 to the
\* last; with a down edge to the next index, from the last to 0 (with both,
\* up first and then down); with neither it leaves selected unchanged.
C17_SelectionWraps ==
    /\ view.kind = "MainMenu" =>
            0 <= view.selected /\ view.selected < Len(Actions)
    /\ MenuUpdated =>
            LET up == now.key["key_up"] = SomeTrue
                down == now.key["key_down"] = SomeTrue
                afterUp == IF up THEN Previous(pre.selected)
                           ELSE pre.selected
                afterDown == IF down THEN Following(afterUp) ELSE afterUp
            IN  /\ action.view.selected = afterDown
                /\ 0 <= action.view.selected
                /\ action.view.selected < Len(Actions)
                /\ (~up /\ ~down) => action.view.selected = pre.selected

\* An up edge on the first entry selects the last one.
C17_Witness ==
    /\ MenuUpdated
    /\ now.key["key_up"] = SomeTrue
    /\ now.key["key_down"] # SomeTrue
    /\ pre.selected = 0
    /\ action.view.selected = Len(Actions) - 1

\* The poll that has just ended processed a window-resize event.
PolledResize ==
    /\ pc \in {"update", "panic"}
    /\ \E i \in 1..Len(polled) : polled[i].t = "Resized"

\* C18: a poll that processes a window-resize event ends normally, with
\* the drawable size in now.resize and, in the first frame, with every
\* event that was pending processed.
C18_ResizeRecorded ==
    PolledResize =>
        /\ pc = "update"
        /\ now.resize # None
        /\ frame = 1 => Len(polled) = inputs

\* The update of the bullets has just run on a single bullet of this kind.
BulletUpdated(kind) ==
    /\ pc = "g_asteroids"
    /\ stages = <<"bullets">>
    /\ Len(pre.bullets) = 1
    /\ pre.bullets[1].kind = kind

\* The rectangle of the one bullet before the update, and where the update
\* puts its left side.
RectBefore == Bullet_rect(pre.bullets[1])
XAfter == RectBefore.x + BULLET_SPEED * dt

\* A retained Rect bullet has moved right by speed * elapsed and kept its
\* y and its size.
RectBulletMoved ==
    /\ Len(view.bullets) = 1
    /\ view.bullets[1].kind = "RectBullet"
    /\ Bullet_rect(view.bullets[1]) = [RectBefore EXCEPT !.x = XAfter]

\* C19: a Rect bullet moves only horizontally at the fixed speed, is
\* removed by the update that takes its right edge, x + width, beyond the
\* right boundary of the screen, and is retained while the right edge is
\* within the screen.
C19_RemovedWhenRightEdgeCrosses ==
    BulletUpdated("RectBullet") =>
        IF XAfter + RectBefore.w > Px(win[1])
        THEN view.bullets = <<>>
        ELSE RectBulletMoved

\* C19, as the code has it: the bullet is removed by the update that takes
\* its left side, x, beyond the right boundary, and retained while x is at
\* most the width of the screen.
C19_RemovedWhenLeftEdgeCrosses ==
    BulletUpdated("RectBullet") =>
        IF XAfter > Px(win[1])
        THEN view.bullets = <<>>
        ELSE RectBulletMoved

\* A Rect bullet is retained with its right edge beyond the boundary.
C19_Witness ==
    /\ BulletUpdated("RectBullet")
    /\ RectBulletMoved
    /\ XAfter < Px(win[1])
    /\ XAfter + RectBefore.w > Px(win[1])

\* The one bullet as the update moves it, and its rectangle then.
MovedBullet ==
    LET b == pre.bullets[1]
    IN  [b EXCEPT !.pos_x = @ + BULLET_SPEED * dt,
                  !.total_time = IF b.kind = "RectBullet" THEN @ ELSE @ + dt]
RectAfter == Bullet_rect(MovedBullet)

OffRight == RectAfter.x > Px(win[1])
OffTopOrBottom == RectAfter.y < 0 \/ RectAfter.y > Px(win[2])

\* C20: a Divergent bullet is removed by the update in which its rectangle
\* leaves the right edge of the screen or its top or bottom bound, and by
\* no other; a Sine or a Rect bullet is removed when its rectangle leaves
\* the right edge and is retained otherwise, wherever it is vertically.
C20_VerticalRemovalOnlyForDivergent ==
    /\ BulletUpdated("DivergentBullet") =>
            IF OffRight \/ OffTopOrBottom
            THEN view.bullets = <<>>
            ELSE view.bullets = <<MovedBullet>>
    /\ (BulletUpdated("SineBullet") \/ BulletUpdated("RectBullet")) =>
            IF OffRight
            THEN view.bullets = <<>>
            ELSE view.bullets = <<MovedBullet>>

\* A Divergent bullet still left of the right edge is removed for having
\* passed the top of the screen.
C20_Witness ==
    /\ BulletUpdated("DivergentBullet")
    /\ ~OffRight
    /\ RectAfter.y < 0
    /\ Bullet_rect(pre.bullets[1]).y >= 0
    /\ view.bullets = <<>>

\* A Sine bullet above the top of the screen is retained.
SineRetainedAboveTop ==
    /\ BulletUpdated("SineBullet")
    /\ RectAfter.y < 0
    /\ view.bullets = <<MovedBullet>>

\* A Divergent bullet is removed for having passed the bottom.
DivergentRemovedBelowBottom ==
    /\ BulletUpdated("DivergentBullet")
    /\ ~OffRight
    /\ RectAfter.y > Px(win[2])
    /\ view.bullets = <<>>

\* The time for which the bullets of the shot have flown: the sum of the
\* elapsed times of the bullet updates run since the loop was entered.
FlightTime ==
    IF pc \in {"tick", "retry"} \/ "bullets" \in Range(stages)
    THEN before ELSE before - dt

\* The vertical offset of a Sine or Divergent bullet t ms after its spawn.
Trajectory(kind, a, b, t) ==
    IF kind = "SineBullet" THEN a * SinMilli(b * t)
    ELSE DivergentOffset(a, b, t)

\* C21: the rectangle of a Sine or Divergent bullet T after its spawn has
\* x = spawn_x + BULLET_SPEED * T and y = origin_y + f(T), whatever the
\* frames into which T was split; at T = 0 the vertical offset is 0.
C21_TrajectoryOfTotalTime ==
    view.kind = "Gameplay" =>
        \A i \in 1..Len(view.bullets) :
            LET bl == view.bullets[i]
                mounts == {view.player.rect.y + Px(Cannon1DY),
                           view.player.rect.y + Px(PLAYER_H) - Px(Cannon2DY)}
            IN  bl.kind \in {"SineBullet", "DivergentBullet"} =>
                    /\ bl.origin_y \in mounts
                    /\ Bullet_rect(bl) =
                            Rectangle(view.player.rect.x + Px(CannonDX)
                                        + BULLET_SPEED * FlightTime,
                                      bl.origin_y
                                        + Trajectory(bl.kind, bl.a, bl.b,
                                                     FlightTime),
                                      Px(BULLET_W), Px(BULLET_H))
                    /\ FlightTime = 0 => Bullet_rect(bl).y = bl.origin_y

\* A Sine bullet that has flown 49 ms, a long frame and then a short one,
\* is off its origin line.
C21_Witness ==
    /\ pc = "render"
    /\ view.kind = "Gameplay"
    /\ frame = MaxFrames
    /\ dt = interval
    /\ FlightTime = 3 * interval + 1
    /\ \E i \in 1..Len(view.bullets) :
            /\ view.bullets[i].kind = "SineBullet"
            /\ view.bullets[i].total_time = FlightTime
            /\ Bullet_rect(view.bullets[i]).y > view.bullets[i].origin_y

\* The asteroids of the collision pass that overlap the player.
Crashed ==
    {i \in 1..Len(collIn.asteroids) :
        Rectangle_overlaps(collIn.asteroids[i].rect, collIn.player)}

PlayerHit == collIn # Nothing /\ pc \notin {"tick", "retry"} /\ Crashed # {}

\* C22: when an asteroid overlaps the player in the collision pass, the
\* asteroid is removed and one explosion is added at its centre; the player
\* is as Player::update left it, the update goes on through bullet spawn,
\* asteroid spawn and backgrounds, and returns a render directive with the
\* same Gameplay view.
C22_PlayerSurvivesCrash ==
    PlayerHit =>
        LET cur == IF pc = "render" THEN action.view ELSE view
            old == Len(collIn.explosions)
        IN  /\ PassDone
            /\ cur.kind = "Gameplay"
            /\ cur.player = Player_update(pre.player, now, keys, win, dt)
            /\ cur.player.rect = collIn.player
            /\ \A i \in Crashed :
                LET a == collIn.asteroids[i]
                IN  /\ a \notin Range(cur.asteroids)
                    /\ Cardinality(
                            {k \in (old + 1)..Len(cur.explosions) :
                                Rectangle_center2(cur.explosions[k].rect)
                                    = Rectangle_center2(a.rect)}) = 1
            /\ pc \in {"render", "present"} =>
                /\ stages = PipelineOrder
                /\ action = Render(cur)
                /\ Len(cur.bullets) =
                        Len(LeftByPass) + (IF FirePressed THEN 2 ELSE 0)
                /\ cur.bg = BgSet_update(pre.bg, dt)

\* The player is hit in a frame in which it fires: the shot is spawned and
\* the game is drawn.
C22_Witness ==
    /\ pc = "present"
    /\ PlayerHit
    /\ FirePressed
    /\ cues.explosion >= 1
    /\ cues.bullet = 1
    /\ drawn.kind = "Gameplay"
    /\ drawn.player.rect = collIn.player

\* The update of a frame whose poll recorded the quit event has been called.
QuitUpdated == now.quit /\ calls.update > 0

\* C23: the update of a frame whose poll recorded quit returns terminate,
\* in either view and whatever key edges the poll recorded, with the view
\* as it was: no pipeline stage, no sound, no navigation, no background
\* advance; the frame is neither rendered nor presented.
C23_QuitBeforeAnyChange ==
    QuitUpdated =>
        /\ pc = "done"
        /\ action = Quit
        /\ view = pre
        /\ stages = <<>>
        /\ collIn = Nothing
        /\ cues = NoCues
        /\ drawn = Nothing
        /\ calls = [NoCalls EXCEPT !.poll = 1, !.update = 1]

\* Quit arrives in a Gameplay frame together with a key press.
C23_Witness ==
    /\ QuitUpdated
    /\ pc = "done"
    /\ view.kind = "Gameplay"
    /\ \E k \in Keys : now.key[k] = SomeTrue

\* The sizes the channel pool has after k failed attempts, for every k the
\* i32 can hold.
PoolSizes == {n \in {Pow2(k) : k \in 0..30} : n >= InitialChannels}

\* C24: allocated_channels is 32 * 2^k for the k failed attempts so far,
\* without overflow; a call of play_sound does not abort, and when it has
\* returned the sound was started once.
C24_GrowAndRetry ==
    /\ allocated_channels \in PoolSizes
    /\ allocated_channels >= InitialChannels
    /\ pc # "panic"
    /\ pc = "g_spawn" => cues.bullet = 1

\* The explosion's accumulated time is below EXPLOSION_DURATION, 17/16 s.
Unfinished(e) == e.alive_since * EXPLOSION_FPS < EXPLOSIONS_TOTAL * MsPerSecond

\* The frame of its animation an explosion shows.
ExplosionFrame(e) ==
    AnimatedSprite_frame(e.time, EXPLOSION_FPS, EXPLOSIONS_TOTAL)

\* The explosions of the view before the update that its Explosion::update
\* keeps, advanced by the elapsed time.
KeptExplosions ==
    LET kept == SelectSeq(pre.explosions,
                    LAMBDA e : (e.alive_since + dt) * EXPLOSION_FPS
                                    < EXPLOSIONS_TOTAL * MsPerSecond)
    IN  [i \in 1..Len(kept) |->
            [kept[i] EXCEPT !.alive_since = @ + dt, !.time = @ + dt]]

\* C25: an explosion starts with alive time 0 and Explosion::update removes
\* it in the first update that brings its time to 17/16 s or more; every
\* explosion that is rendered has a time below 17/16 s and shows frame
\* floor(time * 16), between 0 and 16, of a sequence that has not wrapped.
C25_ExplosionPlaysOnce ==
    /\ pc = "g_collide" => view.explosions = KeptExplosions
    /\ PassDone =>
            LET cur == IF pc = "render" THEN action.view ELSE view
            IN  /\ IsPrefix(KeptExplosions, cur.explosions)
                /\ \A k \in (Len(KeptExplosions) + 1)..Len(cur.explosions) :
                        /\ cur.explosions[k].alive_since = 0
                        /\ cur.explosions[k].time = 0
    /\ (pc = "present" /\ drawn.kind = "Gameplay") =>
            \A k \in 1..Len(drawn.explosions) :
                LET e == drawn.explosions[k]
                IN  /\ Unfinished(e)
                    /\ e.time = e.alive_since
                    /\ ExplosionFrame(e) = (e.time * EXPLOSION_FPS)
                                                \div MsPerSecond
                    /\ ExplosionFrame(e) \in 0..(EXPLOSIONS_TOTAL - 1)

\* An explosion is drawn in the last frame of its animation, next to one
\* that has just begun.
C25_Witness ==
    /\ pc = "present"
    /\ drawn.kind = "Gameplay"
    /\ \E k \in 1..Len(drawn.explosions) :
            ExplosionFrame(drawn.explosions[k]) = EXPLOSIONS_TOTAL - 1
    /\ \E k \in 1..Len(drawn.explosions) :
            drawn.explosions[k].alive_since = 0

\* C26: for every recognized key, a just-pressed edge goes with a true
\* level flag and a just-released edge with a false one; after a poll, a
\* key whose edge is unchanged has the level flag it had before the poll,
\* and a poll with no pending event leaves every edge unchanged, quit
\* false, resize absent and every level flag as it was.
C26_EdgeMatchesLevel ==
    /\ \A k \in Keys :
            /\ now.key[k] = SomeTrue => keys[k]
            /\ now.key[k] = SomeFalse => ~keys[k]
            /\ (pc = "update" /\ now.key[k] = None) => keys[k] = keysBefore[k]
    /\ (pc = "update" /\ polled = <<>>) =>
            /\ now = ImmediateEvents_new
            /\ keys = keysBefore

\* A key is pressed and released within one poll while another key stays
\* held over it.
C26_Witness ==
    /\ pc = "update"
    /\ \E k \in Keys :
            /\ ~keysBefore[k]
            /\ polled = <<Ev("KeyDown", k), Ev("KeyUp", k)>>
            /\ now.key[k] = SomeFalse
            /\ ~keys[k]
    /\ \E k \in Keys : now.key[k] = None /\ keys[k]

\* The asteroids of the pass that bullet j overlaps.
HitBy(j) ==
    {i \in 1..Len(collIn.asteroids) :
        Rectangle_overlaps(collIn.asteroids[i].rect,
                           Bullet_rect(collIn.bullets[j]))}

\* C27: the asteroids the collision pass leaves are, in order, those that
\* overlap neither the player nor any bullet the pass began with, a bullet
\* that an earlier asteroid has already marked dead included: one bullet
\* destroys every asteroid it overlaps, each with an explosion of its own.
C27_AsteroidSurvivesIffNoOverlap ==
    pc = "g_fire" =>
        /\ view.asteroids =
                SelectSeq(collIn.asteroids, LAMBDA a : ~AsteroidOverlapsSome(a))
        /\ \A j \in 1..Len(collIn.bullets) :
            \A i \in HitBy(j) :
                /\ collIn.asteroids[i] \notin Range(view.asteroids)
                /\ \E k \in (Len(collIn.explosions) + 1)..Len(view.explosions) :
                        Rectangle_center2(view.explosions[k].rect)
                            = Rectangle_center2(collIn.asteroids[i].rect)
        /\ Len(view.explosions) = Len(collIn.explosions) + Len(Destroyed)

\* A single bullet, the only one to touch them, destroys two asteroids.
C27_Witness ==
    /\ pc = "g_fire"
    /\ \E j \in 1..Len(collIn.bullets) :
            /\ Cardinality(HitBy(j)) = 2
            /\ \A m \in 1..Len(collIn.bullets) : m # j => HitBy(m) = {}
    /\ ~PlayerHit
    /\ view.asteroids = <<>>
    /\ Len(view.explosions) = Len(collIn.explosions) + 2

\* The poll released key k and then pressed it again.
Repressed(k) ==
    \E i, j \in 1..Len(polled) :
        i < j /\ polled[i] = Ev("KeyUp", k) /\ polled[j] = Ev("KeyDown", k)

\* The first update of a view that a transition has installed is due.
FirstUpdateDue(kind) == pc = "update" /\ fresh /\ view.kind = kind

\* C28: the first update of a menu that an escape press has installed
\* finds escape held from before the poll, and terminates only on a quit
\* event or when the poll released escape and pressed it again, key-repeat
\* KeyDowns notwithstanding; the first update of a game begun while the
\* fire key is held sees no fire edge unless the poll released the key and
\* pressed it again, and without a fire edge a game update adds no bullet
\* and plays no sound for one.
C28_TransitionEdgeNotSeenAgain ==
    [][ /\ FirstUpdateDue("MainMenu") =>
            /\ keysBefore["key_escape"]
            /\ pc' = "done" => now.quit \/ Repressed("key_escape")
        /\ (FirstUpdateDue("Gameplay") /\ keysBefore["key_space"]
                /\ ~Repressed("key_space")) =>
            now.key["key_space"] # SomeTrue
        /\ (pc = "g_fire" /\ now.key["key_space"] # SomeTrue) =>
            /\ view'.bullets = view.bullets
            /\ cues' = cues
      ]_vars

\* The menu that an escape press has installed is about to be updated
\* after a poll that brought a key-repeat of escape and nothing else: it
\* goes on.
C28_Witness ==
    /\ FirstUpdateDue("MainMenu")
    /\ keysBefore["key_escape"]
    /\ polled = <<Ev("KeyDown", "key_escape")>>
    /\ now.key["key_escape"] = None
    /\ MainMenuView_update(view, now, win, dt).tag = "Render"

\* The fire key was down when the poll began and the poll brought no KeyUp
\* for it, whatever KeyDown events it brought.
FireHeldThrough ==
    /\ keysBefore["key_space"]
    /\ \A i \in 1..Len(polled) : polled[i] # Ev("KeyUp", "key_space")

\* C29: a poll through which the fire key stays held gives a Gameplay
\* frame no fire edge, key-repeat KeyDowns notwithstanding; the bullet
\* spawn stage of a frame with the edge appends two bullets and plays one
\* fire sound, and that of a frame without it appends and plays nothing.
C29_NoAutoFire ==
    [][ /\ (pc = "update" /\ view.kind = "Gameplay" /\ FireHeldThrough) =>
                now.key["key_space"] = None
        /\ pc = "g_fire" =>
                IF now.key["key_space"] = SomeTrue
                THEN /\ Len(view'.bullets) = Len(view.bullets) + 2
                     /\ IsPrefix(view.bullets, view'.bullets)
                     /\ cues' = [cues EXCEPT !.bullet = @ + 1]
                     /\ cues.bullet = 0
                ELSE view'.bullets = view.bullets /\ cues' = cues
      ]_vars

\* The second Gameplay frame of a hold: the two bullets of the frame of the
\* press are in flight, and the poll has brought two key-repeats and no
\* edge.
C29_Witness ==
    /\ pc = "update"
    /\ view.kind = "Gameplay"
    /\ ~fresh
    /\ frame = MaxFrames
    /\ FireHeldThrough
    /\ polled = <<Ev("KeyDown", "key_space"), Ev("KeyDown", "key_space")>>
    /\ now.key["key_space"] = None
    /\ Len(view.bullets) = 2
    /\ \A i \in 1..2 : view.bullets[i].total_time = 0

\* The Gameplay view is no longer being updated: the program has ended or
\* the menu has taken over.
GameLeft == pc \in {"done", "panic"} \/ KindNow = "MainMenu"

\* Each bullet kept by an update of the bullets has moved to the right and
\* is not past the right edge.
BulletsAdvance ==
    pc = "g_bullets" =>
        \A j \in 1..Len(view'.bullets) :
            \E i \in 1..Len(view.bullets) :
                /\ view'.bullets[j] =
                        [view.bullets[i] EXCEPT
                            !.pos_x = view'.bullets[j].pos_x,
                            !.total_time = view'.bullets[j].total_time]
                /\ view'.bullets[j].pos_x > view.bullets[i].pos_x
                /\ view'.bullets[j].pos_x <= Px(win[1])

\* Each asteroid kept by an update of the asteroids has moved to the left,
\* at 50 px/s or more, and is not past the left edge.
AsteroidsAdvance ==
    pc = "g_asteroids" =>
        \A n \in 1..Len(view'.asteroids) :
            \E m \in 1..Len(view.asteroids) :
                /\ view'.asteroids[n] =
                        [view.asteroids[m] EXCEPT
                            !.rect.x = view'.asteroids[n].rect.x,
                            !.time = view'.asteroids[n].time]
                /\ view.asteroids[m].vel >= 50
                /\ view'.asteroids[n].rect.x
                        <= view.asteroids[m].rect.x - 50 * dt
                /\ view'.asteroids[n].rect.x > -Px(ASTEROID_SIDE)

\* C30: every update of the bullets moves each bullet it keeps to the
\* right, every update of the asteroids moves each asteroid it keeps to the
\* left, at 50 px/s or more; and, unless the Gameplay view ceases to be
\* updated, the bullets and the asteroids of the view are all removed in
\* the end.
C30_EntitiesLeave ==
    /\ [][BulletsAdvance /\ AsteroidsAdvance]_vars
    /\ <>(GameLeft \/ (view.bullets = <<>> /\ view.asteroids = <<>>))

\* After several frames of the game the last of the bullets and asteroids
\* has gone.
C30_Witness ==
    /\ pc = "present"
    /\ view.kind = "Gameplay"
    /\ Len(pre.bullets) + Len(pre.asteroids) > 0
    /\ view.bullets = <<>>
    /\ view.asteroids = <<>>
    /\ frame >= MaxFrames - LifeFrames + 4

====
